---- MODULE Spec2Model ----
(***************************************************************************)
(* Streaming lifecycle and resilience engine of the Avatar Tank            *)
(* telepresence system (modules/mediamtx_camera.py, modules/               *)
(* mediamtx_main.py).                                                      *)
(*                                                                         *)
(* Timestamps taken with time.time() for snapshots and history entries     *)
(* are not part of the modelled snapshot: no modelled operation reads      *)
(* them.  Times that the code does compare (cooldowns) are modelled by     *)
(* the clock "now".                                                        *)
(***************************************************************************)
EXTENDS Integers, Sequences, FiniteSets, TLC

VARIABLES
    state,            \* StreamStateManager._state
    state_info,       \* StreamStateManager._state_info (without timestamp)
    state_history,    \* StreamStateManager._state_history (states, oldest first)
    event_callbacks,  \* StreamStateManager._event_callbacks
    emitted,          \* callbacks invoked by the last operation, in order
    result,           \* what the last operation returned to its caller
    streaming_active,     \* mediamtx_camera.streaming_active
    streaming_process,    \* mediamtx_camera.streaming_process (pid of the Popen object)
    processes,            \* the ffmpeg processes in the OS process table
    stream_operation_lock,\* mediamtx_main.stream_operation_lock is held
    refresh_pc,           \* where each refresh_stream_api request stands
    refresh_child,        \* the pid each refresh_stream_api request spawned
    status_pc,            \* where the get_status request stands
    status_pgrep,         \* get_status: the pids its pgrep printed
    now,                  \* time.time(), in seconds
    reconnection_state,   \* mediamtx_camera.reconnection_state
    reconnect_thread,     \* the delayed_reconnection thread of handle_stream_failure
    failure_calls,        \* concurrent calls of handle_stream_failure, each with its thread
    recovery_attempts,    \* ErrorRecoveryManager.recovery_attempts
    last_recovery_time,   \* ErrorRecoveryManager.last_recovery_time
    current_resolution,   \* mediamtx_camera.current_resolution
    current_framerate,    \* mediamtx_camera.current_framerate
    cpu_usage,            \* what get_cpu_usage() reads from /proc/loadavg, in percent
    is_throttling,        \* what check_cpu_throttling() reads from cpufreq
    bandwidth_manager,    \* mediamtx_camera.bandwidth_manager
    audio_quality_monitor,\* mediamtx_camera.audio_quality_monitor
    last_bitrate,         \* audio_quality_monitor_thread.last_bitrate
    ffmpeg_command,       \* get_ffmpeg_command(): where the call stands, its locals
    persisted,            \* avatar_state: last_resolution and last_fps of the state file
    frame_watchdog,       \* mediamtx_camera.frame_watchdog (FrameWatchdog fields)
    recording_procs,      \* the recording ffmpeg processes and their stdin pipes
    recording_manager,    \* mediamtx_camera.recording_manager (RecordingManager fields)
    reliable_recording,   \* mediamtx_main.recording_process, _start_time, _filename
    rec                   \* mediamtx_recorder.rec (MediaMTXRecordingManager fields)

smVars == <<state, state_info, state_history, event_callbacks, emitted>>
streamVars == <<streaming_active, streaming_process, processes, stream_operation_lock,
                refresh_pc, refresh_child, status_pc, status_pgrep>>
reconnVars == <<reconnection_state, reconnect_thread, failure_calls>>
recoveryVars == <<recovery_attempts, last_recovery_time>>
qualityVars == <<current_resolution, current_framerate>>
cpuVars == <<cpu_usage, is_throttling>>
commandVars == <<ffmpeg_command>>
adaptVars == <<bandwidth_manager, audio_quality_monitor, last_bitrate>>
storeVars == <<persisted>>
watchdogVars == <<frame_watchdog>>
recordingVars == <<recording_procs, recording_manager, reliable_recording, rec>>
extVars == <<adaptVars, storeVars, watchdogVars, recordingVars>>
restVars == <<now, reconnVars, recoveryVars, qualityVars, cpuVars, commandVars, extVars>>
vars == <<smVars, result, streamVars, restVars>>

----------------------------------------------------------------------------
(* Bounds *)

MaxPid == 2            \* process ids are 1..MaxPid
MaxRetry == 1          \* retry_count is incremented up to MaxRetry
MaxCallbacks == 1      \* registered state-change callbacks
MaxTransitions == 4    \* accepted transitions explored by SpecStateManager
MaxRequests == 2       \* concurrent refresh_stream_api requests
MaxReconnectTime == 8  \* seconds of clock explored by SpecReconnect
MaxRecoveryTime == 90  \* seconds of clock explored by SpecRecovery
TickStep == 15         \* seconds between two calls explored by SpecRecovery

----------------------------------------------------------------------------
(* class StreamState(Enum) *)

STOPPED == "stopped"
STARTING == "starting"
ACTIVE == "active"
STOPPING == "stopping"
ERROR == "error"

StreamState == {STOPPED, STARTING, ACTIVE, STOPPING, ERROR}

\* Python's None, for an Optional[str] and for an Optional[int] (pids are > 0)
None == "None"
NoPid == 0

Pids == 1..MaxPid
ErrorMessages == {"FFmpeg failed to start: stderr"}
Callbacks == {"cb_ok", "cb_raises"}
Requests == 1..MaxRequests

\* dataclass StreamStateInfo, defaults process_id=None, error_message=None,
\* retry_count=0
StreamStateInfo(s, pid, msg, retries) ==
    [state |-> s, process_id |-> pid, error_message |-> msg, retry_count |-> retries]

\* StreamStateManager._is_valid_transition: the valid_transitions table
valid_transitions ==
    [s \in StreamState |->
        CASE s = STOPPED  -> {STARTING, ERROR}
          [] s = STARTING -> {ACTIVE, ERROR, STOPPING}
          [] s = ACTIVE   -> {STOPPING, ERROR}
          [] s = STOPPING -> {STOPPED, ERROR}
          [] s = ERROR    -> {STOPPED, STARTING}]

\* mutant: self-transitions accepted
is_valid_transition_reflexive(from_state, to_state) ==
    to_state \in valid_transitions[from_state] \cup {from_state}

is_valid_transition(from_state, to_state) ==
    to_state \in valid_transitions[from_state]

\* mutant: an exception raised by a callback ends the loop
emit_state_change_until_raise(old_state, new_state, process_id, error_message) ==
    LET raising == {i \in 1..Len(event_callbacks) : event_callbacks[i] = "cb_raises"}
        last == IF raising = {} THEN Len(event_callbacks)
                ELSE CHOOSE i \in raising : \A j \in raising : i <= j
    IN  [i \in 1..last |->
            [callback |-> event_callbacks[i], old |-> old_state, new |-> new_state,
             process_id |-> process_id, error_message |-> error_message]]

\* StreamStateManager._emit_state_change: every registered callback is called
\* in list order; an exception raised by one is caught and logged.
emit_state_change(old_state, new_state, process_id, error_message) ==
    [i \in 1..Len(event_callbacks) |->
        [callback |-> event_callbacks[i], old |-> old_state, new |-> new_state,
         process_id |-> process_id, error_message |-> error_message]]

\* history after appending the outgoing state, trimmed to the last 10
HistoryLimit == 10

\* mutant: the history is never trimmed
append_history_untrimmed(h, old_state) == Append(h, old_state)

append_history(h, old_state) ==
    LET h2 == Append(h, old_state)
    IN  IF Len(h2) > HistoryLimit THEN Tail(h2) ELSE h2

\* The manager's fields as one value, so that calls can be chained.
CurrentManager ==
    [state |-> state, state_info |-> state_info, state_history |-> state_history,
     emitted |-> <<>>, ret |-> TRUE]

\* StreamStateManager.set_state(new_state, process_id, error_message) on the
\* manager value sm: the manager after the call, ret the call's result and
\* emitted extended by the callbacks the call invoked.
set_state_on(sm, new_state, process_id, error_message) ==
    IF ~is_valid_transition(sm.state, new_state)
    THEN [sm EXCEPT !.ret = FALSE]
    ELSE [state |-> new_state,
          state_info |-> StreamStateInfo(new_state, process_id, error_message,
                                         sm.state_info.retry_count),
          state_history |-> append_history(sm.state_history, sm.state),
          emitted |-> sm.emitted \o emit_state_change(sm.state, new_state,
                                                      process_id, error_message),
          ret |-> TRUE]

set_state_effect(new_state, process_id, error_message) ==
    set_state_on(CurrentManager, new_state, process_id, error_message)

\* the manager's fields become those of sm
StoreManager(sm) ==
    /\ state' = sm.state
    /\ state_info' = sm.state_info
    /\ state_history' = sm.state_history
    /\ emitted' = sm.emitted
    /\ UNCHANGED event_callbacks

----------------------------------------------------------------------------
(* The StreamStateManager object driven through its public methods *)

Returned(op, ok) == [op |-> op, ok |-> ok]

\* module globals of mediamtx_camera.py and mediamtx_main.py at import
InitStreaming ==
    /\ streaming_active = FALSE
    /\ streaming_process = NoPid
    /\ processes = {}
    /\ stream_operation_lock = FALSE
    /\ refresh_pc = [r \in Requests |-> "idle"]
    /\ refresh_child = [r \in Requests |-> NoPid]
    /\ status_pc = "idle"
    /\ status_pgrep = {}

\* reconnection_state = {...} as the module defines it; no thread started
NoThread == [pc |-> "none", delay |-> 0, wake_at |-> 0, retry_before |-> 0]

InitReconnection ==
    /\ reconnection_state = [attempts |-> 0, is_reconnecting |-> FALSE,
                             last_failure_time |-> 0, consecutive_failures |-> 0]
    /\ reconnect_thread = NoThread
    /\ failure_calls = [i \in Requests |-> "idle"]

ErrorTypes == {"camera_busy", "network_timeout", "mediamtx_crash", "unknown"}

\* ErrorRecoveryManager.__init__: both ledgers are empty dicts; a key that
\* is absent from last_recovery_time is Never
Never == -1

InitRecovery ==
    /\ recovery_attempts = [e \in ErrorTypes |-> 0]
    /\ last_recovery_time = [e \in ErrorTypes |-> Never]

Resolutions == {"320p", "480p", "720p"}
Framerates == {5, 10, 15, 25}

\* load_camera_settings(): the persisted last_resolution and last_fps, by
\* default "480p" and 10
InitQuality(resolutions, framerates) ==
    /\ current_resolution \in resolutions
    /\ current_framerate \in framerates

InitCpu ==
    /\ cpu_usage = 0
    /\ is_throttling = FALSE

\* no call of get_ffmpeg_command() is under way
InitCommand ==
    ffmpeg_command = [pc |-> "idle", width |-> 0, height |-> 0, video_bitrate |-> 0]

\* bandwidth_manager's last_adaptation_time starts as 0, the Unix epoch; on
\* the model's clock, which starts at 0 when the program does, that is long
\* before any cooldown could still run
Epoch == -100

\* bandwidth_manager = {...} as the module defines it
InitBandwidth ==
    bandwidth_manager =
        [current_resolution |-> "480p", current_fps |-> 10, current_bitrate |-> 32,
         network_conditions |-> [packet_loss_rate |-> 0, rtt_ms |-> 0,
                                 bandwidth_kbps |-> 0],
         adaptation_history |-> <<>>,
         last_adaptation_time |-> Epoch]

\* audio_quality_monitor = {...} as the module defines it, its
\* last_adjustment_time 0 being the Unix epoch; the thread's last_bitrate
\* attribute is not set and read with the default 32
InitAudioQuality ==
    /\ audio_quality_monitor = [current_bitrate |-> 32, packet_loss_history |-> <<>>,
                                last_adjustment_time |-> Epoch]
    /\ last_bitrate = 32

\* the state file holds what load_camera_settings() has just read from it
InitStore ==
    persisted = [last_resolution |-> current_resolution, last_fps |-> current_framerate]

\* FrameWatchdog.__init__; loops counts the watchdog_loop threads alive
InitWatchdog ==
    frame_watchdog = [watchdog_active |-> FALSE, last_frame_time |-> 0, loops |-> 0]

\* no recording process was started; RecordingManager.__init__, the three
\* globals of mediamtx_main.py and MediaMTXRecordingManager.__init__ (with
\* mediamtx_audio.audio_device_busy and no monitor thread)
InitRecording ==
    /\ recording_procs = [started |-> 0, alive |-> {}, stdin_closed |-> {}]
    /\ recording_manager = [recording_active |-> FALSE, recording_process |-> NoPid,
                            current_segment |-> None]
    /\ reliable_recording = [recording_process |-> NoPid, recording_start_time |-> Never,
                             recording_filename |-> None]
    /\ rec = [running |-> FALSE, process |-> NoPid, last_file |-> None,
              audio_device_busy |-> FALSE, monitors |-> {}]

InitManagerFields ==
    /\ state = STOPPED
    /\ state_info = StreamStateInfo(STOPPED, NoPid, None, 0)
    /\ state_history = <<>>
    /\ event_callbacks = <<>>
    /\ emitted = <<>>

\* the program after import, with the persisted quality settings among those given
InitWith(resolutions, framerates) ==
    /\ InitManagerFields
    /\ result = Returned("init", TRUE)
    /\ InitStreaming
    /\ now = 0
    /\ InitReconnection
    /\ InitRecovery
    /\ InitQuality(resolutions, framerates)
    /\ InitCpu
    /\ InitCommand
    /\ InitBandwidth
    /\ InitAudioQuality
    /\ InitStore
    /\ InitWatchdog
    /\ InitRecording

InitStateManager == InitWith({"480p"}, {10})

set_state(new_state, process_id, error_message) ==
    LET e == set_state_effect(new_state, process_id, error_message)
    IN  /\ StoreManager(e)
        /\ result' = Returned("set_state", e.ret)
        /\ UNCHANGED <<restVars, streamVars>>

SetStateCall ==
    \E t \in StreamState, p \in Pids \cup {NoPid}, m \in ErrorMessages \cup {None} :
        /\ is_valid_transition(state, t) => Len(state_history) < MaxTransitions
        /\ set_state(t, p, m)

add_event_callback ==
    \E cb \in Callbacks :
        /\ Len(event_callbacks) < MaxCallbacks
        /\ event_callbacks' = Append(event_callbacks, cb)
        /\ emitted' = <<>>
        /\ result' = Returned("add_event_callback", TRUE)
        /\ UNCHANGED <<restVars, state, state_info, state_history, streamVars>>

increment_retry_count ==
    /\ state_info.retry_count < MaxRetry
    /\ state_info' = [state_info EXCEPT !.retry_count = @ + 1]
    /\ emitted' = <<>>
    /\ result' = Returned("increment_retry_count", TRUE)
    /\ UNCHANGED <<restVars, state, state_history, event_callbacks, streamVars>>

reset_retry_count ==
    /\ state_info' = [state_info EXCEPT !.retry_count = 0]
    /\ emitted' = <<>>
    /\ result' = Returned("reset_retry_count", TRUE)
    /\ UNCHANGED <<restVars, state, state_history, event_callbacks, streamVars>>

NextStateManager ==
    \/ SetStateCall
    \/ add_event_callback
    \/ increment_retry_count
    \/ reset_retry_count

SpecStateManager == InitStateManager /\ [][NextStateManager]_vars

----------------------------------------------------------------------------
(* C1: set_state(t) from state s returns True exactly when (s, t) is an    *)
(* edge of the transition table; any other call, s = t included, returns   *)
(* False, leaves the state, the snapshot and the history as they were and  *)
(* calls no subscriber.                                                    *)

C1_TransitionTable ==
    {<<STOPPED, STARTING>>, <<STOPPED, ERROR>>,
     <<STARTING, ACTIVE>>, <<STARTING, ERROR>>, <<STARTING, STOPPING>>,
     <<ACTIVE, STOPPING>>, <<ACTIVE, ERROR>>,
     <<STOPPING, STOPPED>>, <<STOPPING, ERROR>>,
     <<ERROR, STOPPED>>, <<ERROR, STARTING>>}

C1_SetStateStep ==
    \A t \in StreamState, p \in Pids \cup {NoPid}, m \in ErrorMessages \cup {None} :
        set_state(t, p, m) =>
            /\ result'.ok = (<<state, t>> \in C1_TransitionTable)
            /\ result'.ok => state' = t
            /\ ~result'.ok =>
                  /\ state' = state
                  /\ state_info' = state_info
                  /\ state_history' = state_history
                  /\ emitted' = <<>>

C1_SetStateFollowsTable == [][C1_SetStateStep]_vars

\* a rejected call made with a subscriber registered and a non-empty history
C1_Witness ==
    /\ result = Returned("set_state", FALSE)
    /\ Len(event_callbacks) > 0
    /\ Len(state_history) > 1
    /\ state = ACTIVE

----------------------------------------------------------------------------
(* The streaming control surface as it runs: mediamtx_camera.start_streaming *)
(* and stop_streaming return before their first statement that touches any   *)
(* state ("FFmpeg management disabled"), so the statements below that return *)
(* are never executed and are not part of the model.  The encoder is spawned *)
(* by mediamtx_main.refresh_stream_api, and the state manager is moved by    *)
(* the status endpoint mediamtx_main.get_status.                             *)

\* an ffmpeg process: "refresh" is the encoder refresh_stream_api spawns
\* (ffmpeg ... -f rtsp rtsp://127.0.0.1:8554/stream); "external" is an ffmpeg
\* started elsewhere whose command line holds rtsp://localhost:8554/stream
\* (the stream monitor's encoder, a recording or a snapshot reading the relay)
Process(pid, kind) == [pid |-> pid, kind |-> kind]

FreePids == Pids \ {p.pid : p \in processes}

\* pgrep -f 'ffmpeg.*rtsp://localhost:8554/stream': the pids it prints
pgrep_ffmpeg_stream == {p.pid : p \in {q \in processes : q.kind = "external"}}

\* the encoders of the live stream that this program spawned
LiveEncoders == {p \in processes : p.kind = "refresh"}

\* an ffmpeg process is started outside the streaming control surface
external_ffmpeg_start ==
    \E pid \in FreePids :
        /\ processes' = processes \cup {Process(pid, "external")}
        /\ UNCHANGED <<restVars, smVars, result, streaming_active, streaming_process,
                       stream_operation_lock, refresh_pc, refresh_child,
                       status_pc, status_pgrep>>

\* an ffmpeg process exits on its own
process_exit ==
    \E p \in processes :
        /\ processes' = processes \ {p}
        /\ UNCHANGED <<restVars, smVars, result, streaming_active, streaming_process,
                       stream_operation_lock, refresh_pc, refresh_child,
                       status_pc, status_pgrep>>

\* mutant: start_streaming answers as the unreachable body would
start_streaming_rejects == [ok |-> FALSE, msg |-> "Streaming already active"]

\* start_streaming(): return {"ok": True, "msg": "Stream management handled externally"}
start_streaming_returns == [ok |-> TRUE, msg |-> "Stream management handled externally"]

start_streaming ==
    /\ result' = Returned("start_streaming", start_streaming_returns.ok)
    /\ UNCHANGED <<restVars, smVars, streamVars>>

\* stop_streaming(): return {"ok": True, "msg": "Stream management handled externally"}
stop_streaming_returns == [ok |-> TRUE, msg |-> "Stream management handled externally"]

stop_streaming ==
    /\ result' = [op |-> "stop_streaming", ok |-> stop_streaming_returns.ok,
                  was |-> state]
    /\ UNCHANGED <<restVars, smVars, streamVars>>

\* get_streaming_status(): a held process that has exited is dropped and the
\* state manager is told STOPPED.  The manager value and the two globals after
\* the call.
get_streaming_status_effect ==
    IF streaming_process # NoPid /\ streaming_process \notin {p.pid : p \in processes}
    THEN [sm |-> set_state_on(CurrentManager, STOPPED, NoPid, None),
          streaming_active |-> FALSE, streaming_process |-> NoPid]
    ELSE [sm |-> CurrentManager,
          streaming_active |-> streaming_active, streaming_process |-> streaming_process]

get_streaming_status ==
    LET e == get_streaming_status_effect
    IN  /\ StoreManager(e.sm)
        /\ streaming_active' = e.streaming_active
        /\ streaming_process' = e.streaming_process
        /\ result' = Returned("get_streaming_status",
                              e.streaming_active /\ e.streaming_process # NoPid)
        /\ UNCHANGED <<restVars, processes, stream_operation_lock, refresh_pc, refresh_child,
                       status_pc, status_pgrep>>

\* get_status(), first half: get_streaming_status() and the pgrep
get_status_probe ==
    LET e == get_streaming_status_effect
    IN  /\ status_pc = "idle"
        /\ StoreManager(e.sm)
        /\ streaming_active' = e.streaming_active
        /\ streaming_process' = e.streaming_process
        /\ status_pgrep' = pgrep_ffmpeg_stream
        /\ status_pc' = "probed"
        /\ UNCHANGED <<restVars, result, processes, stream_operation_lock, refresh_pc, refresh_child>>

\* get_status(), the synchronisation of the state manager: with ffmpeg seen
\* running and the state "stopped", set_state(STARTING), then
\* set_state(ACTIVE, process_id=int(stdout)) and streaming_active = True.
\* int() raises on more than one pid; the bare except swallows it after
\* set_state(STARTING) was done.
status_sync_on(sm, pids) ==
    IF pids # {} /\ sm.state = STOPPED
    THEN LET sm1 == set_state_on(sm, STARTING, NoPid, None)
         IN  IF Cardinality(pids) = 1
             THEN [sm |-> set_state_on(sm1, ACTIVE, CHOOSE p \in pids : TRUE, None),
                   mark_active |-> TRUE]
             ELSE [sm |-> sm1, mark_active |-> FALSE]
    ELSE [sm |-> sm, mark_active |-> FALSE]

get_status_sync ==
    LET e == status_sync_on(CurrentManager, status_pgrep)
    IN  /\ status_pc = "probed"
        /\ StoreManager(e.sm)
        /\ streaming_active' = (streaming_active \/ e.mark_active)
        /\ status_pc' = "idle"
        /\ status_pgrep' = {}
        /\ result' = Returned("get_status", TRUE)
        /\ UNCHANGED <<restVars, streaming_process, processes, stream_operation_lock,
                       refresh_pc, refresh_child>>

\* mutant: the lock is taken for granted
try_acquire_always(held) == TRUE

\* stream_operation_lock.acquire(blocking=False)
try_acquire(held) == ~held

\* refresh_stream_api(), up to the end of "pkill -9 ffmpeg": a request that
\* does not get the lock answers 409; one that does kills every ffmpeg
\* process, those of the recordings included
refresh_stream_api_begin(r) ==
    /\ refresh_pc[r] = "idle"
    /\ IF try_acquire(stream_operation_lock)
       THEN /\ stream_operation_lock' = TRUE
            /\ processes' = {}
            /\ recording_procs' = [recording_procs EXCEPT !.alive = {}]
            /\ refresh_pc' = [refresh_pc EXCEPT ![r] = "killed"]
            /\ refresh_child' = [refresh_child EXCEPT ![r] = NoPid]
            /\ UNCHANGED result
       ELSE /\ result' = [op |-> "refresh_stream_api", ok |-> FALSE,
                          spawned |-> FALSE, encoder_alive |-> FALSE]
            /\ UNCHANGED <<stream_operation_lock, processes, recording_procs,
                           refresh_pc, refresh_child>>
    /\ UNCHANGED <<now, reconnVars, recoveryVars, qualityVars, cpuVars, commandVars,
                   adaptVars, storeVars, watchdogVars, recording_manager,
                   reliable_recording, rec>>
    /\ UNCHANGED <<smVars, streaming_active, streaming_process, status_pc, status_pgrep>>

\* refresh_stream_api(): subprocess.Popen(cmd) after the sleeps
refresh_stream_api_spawn(r) ==
    /\ refresh_pc[r] = "killed"
    /\ \E pid \in FreePids :
          /\ processes' = processes \cup {Process(pid, "refresh")}
          /\ refresh_child' = [refresh_child EXCEPT ![r] = pid]
    /\ refresh_pc' = [refresh_pc EXCEPT ![r] = "spawned"]
    /\ UNCHANGED <<restVars, smVars, result, streaming_active, streaming_process,
                   stream_operation_lock, status_pc, status_pgrep>>

\* refresh_stream_api(): Popen raises (no process could be created); the
\* handler answers 500 and its finally releases the lock
refresh_stream_api_spawn_raises(r) ==
    /\ refresh_pc[r] = "killed"
    /\ refresh_pc' = [refresh_pc EXCEPT ![r] = "idle"]
    /\ stream_operation_lock' = FALSE
    /\ result' = [op |-> "refresh_stream_api", ok |-> FALSE,
                  spawned |-> FALSE, encoder_alive |-> FALSE]
    /\ UNCHANGED <<restVars, smVars, streaming_active, streaming_process, processes,
                   refresh_child, status_pc, status_pgrep>>

\* refresh_stream_api(), after time.sleep(3): whatever the relay answers the
\* handler returns success, and its finally releases the lock
refresh_stream_api_end(r) ==
    /\ refresh_pc[r] = "spawned"
    /\ refresh_pc' = [refresh_pc EXCEPT ![r] = "idle"]
    /\ stream_operation_lock' = FALSE
    /\ result' = [op |-> "refresh_stream_api", ok |-> TRUE, spawned |-> TRUE,
                  encoder_alive |-> Process(refresh_child[r], "refresh") \in processes]
    /\ UNCHANGED <<restVars, smVars, streaming_active, streaming_process, processes,
                   refresh_child, status_pc, status_pgrep>>

Init ==
    /\ InitStateManager

Next ==
    \/ start_streaming
    \/ stop_streaming
    \/ get_streaming_status
    \/ get_status_probe
    \/ get_status_sync
    \/ \E r \in Requests : refresh_stream_api_begin(r)
    \/ \E r \in Requests : refresh_stream_api_spawn(r)
    \/ \E r \in Requests : refresh_stream_api_spawn_raises(r)
    \/ \E r \in Requests : refresh_stream_api_end(r)
    \/ external_ffmpeg_start
    \/ process_exit

Spec == Init /\ [][Next]_vars

----------------------------------------------------------------------------
(* C2: whenever the stream state is ACTIVE, the stream process reference   *)
(* is set and marked active (an encoder process handle is held).           *)
C2_ActiveHoldsEncoder ==
    state = ACTIVE => (streaming_process # NoPid /\ streaming_active)

(* C3: at most one encoder of the live stream spawned by the program is    *)
(* running at any time, however refresh requests, start_streaming and      *)
(* stop_streaming interleave.                                              *)
C3_AtMostOneLiveEncoder == Cardinality(LiveEncoders) <= 1

\* a refresh request is in flight with its encoder running while another
\* request was turned away
C3_Witness ==
    /\ \E r \in Requests : refresh_pc[r] = "spawned"
    /\ result.op = "refresh_stream_api" /\ ~result.ok
    /\ Cardinality(LiveEncoders) = 1

(* C4: start_streaming called while the state is ACTIVE or STARTING        *)
(* returns success, changes neither the state nor the process handle and   *)
(* spawns no process.                                                      *)
C4_StartStep ==
    (start_streaming /\ state \in {ACTIVE, STARTING}) =>
        /\ result'.ok
        /\ state' = state /\ state_info' = state_info /\ state_history' = state_history
        /\ streaming_process' = streaming_process
        /\ streaming_active' = streaming_active
        /\ processes' = processes

C4_StartWhileActiveIsNoOp == [][C4_StartStep]_vars

\* start_streaming has returned while the state is ACTIVE and an ffmpeg runs
C4_Witness ==
    /\ result = Returned("start_streaming", TRUE)
    /\ state = ACTIVE
    /\ processes # {}

(* C5: once stop_streaming, called in state ACTIVE, has returned success,  *)
(* the state is STOPPED, the process the snapshot named is gone and the    *)
(* snapshot's process_id is cleared.                                       *)
C5_StopLeavesNoEncoder ==
    (result.op = "stop_streaming" /\ result.ok /\ result.was = ACTIVE) =>
        /\ state = STOPPED
        /\ state_info.process_id = NoPid
        /\ processes = {}

(* C8: when a start request has returned and the encoder it spawned had    *)
(* exited by then, the state is ERROR with an error message and the        *)
(* request returned a failure.                                             *)
C8_StartFailureReachesError ==
    (result.op = "refresh_stream_api" /\ result.spawned /\ ~result.encoder_alive) =>
        /\ state = ERROR
        /\ state_info.error_message # None
        /\ ~result.ok

----------------------------------------------------------------------------
(* The reconnection controller of mediamtx_camera.py, entered through      *)
(* handle_stream_failure.  Its delayed_reconnection thread calls the       *)
(* stop_streaming and start_streaming that return at once.                 *)

max_attempts == 5
backoff_delays == <<1, 2, 4, 8, 10>>

\* get_reconnection_delay(): backoff_delays[attempts], the last delay from
\* attempts = len(backoff_delays) on (a Python list is indexed from 0)
get_reconnection_delay(rs) ==
    IF rs.attempts >= Len(backoff_delays)
    THEN backoff_delays[Len(backoff_delays)]
    ELSE backoff_delays[rs.attempts + 1]

\* mutant: the reset leaves is_reconnecting as it is
reset_reconnection_state_keeps_flag(rs) ==
    [rs EXCEPT !.attempts = 0, !.consecutive_failures = 0]

reset_reconnection_state(rs) ==
    [rs EXCEPT !.attempts = 0, !.is_reconnecting = FALSE, !.consecutive_failures = 0]

should_attempt_reconnection(rs) ==
    ~rs.is_reconnecting /\ rs.attempts < max_attempts

\* start_reconnection_attempt(): the state after the call and what it returned
start_reconnection_attempt(rs) ==
    IF ~should_attempt_reconnection(rs)
    THEN [rs |-> rs, ret |-> FALSE]
    ELSE [rs |-> [rs EXCEPT !.is_reconnecting = TRUE,
                            !.attempts = @ + 1,
                            !.consecutive_failures = @ + 1],
          ret |-> TRUE]

\* handle_stream_failure(): records the failure time and, when an attempt may
\* start, starts the delayed_reconnection thread with the delay computed
\* after attempts was incremented
handle_stream_failure ==
    LET a == start_reconnection_attempt(
                 [reconnection_state EXCEPT !.last_failure_time = now])
        delay == get_reconnection_delay(a.rs)
    IN  /\ reconnection_state' = a.rs
        /\ reconnect_thread' =
              IF a.ret
              THEN [pc |-> "sleeping", delay |-> delay, wake_at |-> now + delay,
                    retry_before |-> state_info.retry_count]
              ELSE reconnect_thread
        /\ result' = Returned("handle_stream_failure", a.ret)
        /\ UNCHANGED <<extVars, smVars, streamVars, now, recoveryVars, qualityVars, cpuVars, commandVars,
                       failure_calls>>

\* delayed_reconnection(), after time.sleep(delay): stop_streaming() and
\* time.sleep(1) when the attempt is still wanted
delayed_reconnection_stop ==
    /\ reconnect_thread.pc = "sleeping"
    /\ now >= reconnect_thread.wake_at
    /\ reconnect_thread' =
          IF reconnection_state.is_reconnecting
          THEN [reconnect_thread EXCEPT !.pc = "stopped", !.wake_at = now + 1]
          ELSE NoThread
    /\ UNCHANGED <<extVars, smVars, result, streamVars, now, reconnection_state,
                   recoveryVars, qualityVars, cpuVars, commandVars, failure_calls>>

\* delayed_reconnection(): result = start_streaming(); a success resets the
\* reconnection state, a failure only clears is_reconnecting
delayed_reconnection_start ==
    /\ reconnect_thread.pc = "stopped"
    /\ now >= reconnect_thread.wake_at
    /\ reconnection_state' =
          IF start_streaming_returns.ok
          THEN reset_reconnection_state(reconnection_state)
          ELSE [reconnection_state EXCEPT !.is_reconnecting = FALSE]
    /\ reconnect_thread' = NoThread
    /\ result' = [op |-> "delayed_reconnection", ok |-> start_streaming_returns.ok,
                  delay |-> reconnect_thread.delay,
                  retry_before |-> reconnect_thread.retry_before]
    /\ UNCHANGED <<extVars, smVars, streamVars, now, recoveryVars, qualityVars, cpuVars, commandVars,
                   failure_calls>>

\* a second passes
TickSecond ==
    /\ now < MaxReconnectTime
    /\ now' = now + 1
    /\ UNCHANGED <<extVars, smVars, result, streamVars, reconnVars, recoveryVars,
                   qualityVars, cpuVars, commandVars>>

NextReconnect ==
    \/ handle_stream_failure
    \/ delayed_reconnection_stop
    \/ delayed_reconnection_start
    \/ TickSecond

SpecReconnect == Init /\ [][NextReconnect]_vars

\* the entry of the schedule [1, 2, 4, 8, 10] for the k-th attempt
C7_Schedule(k) == backoff_delays[(IF k - 1 < 4 THEN k - 1 ELSE 4) + 1]

(* C7: the k-th consecutive reconnection attempt waits                     *)
(* backoff_delays[min(k-1, 4)] seconds: 1, 2, 4, 8, 10.                    *)
C7_BackoffSchedule ==
    reconnect_thread.pc = "sleeping" =>
        reconnect_thread.delay = C7_Schedule(reconnection_state.attempts)

(* C9: once the reconnection attempt scheduled for a failure has fired,    *)
(* the snapshot's retry_count is exactly 1 greater than it was when the    *)
(* failure was handled.                                                    *)
C9_RetryCountAfterReconnect ==
    result.op = "delayed_reconnection" =>
        state_info.retry_count = result.retry_before + 1

----------------------------------------------------------------------------
(* ErrorRecoveryManager, entered through attempt_recovery (the frame       *)
(* watchdog and POST /api/health/recovery, which passes any error_type).   *)

max_recovery_attempts == 3
recovery_cooldown == 30

\* mutant: the cooldown is not looked at
should_attempt_recovery_no_cooldown(error_type) ==
    recovery_attempts[error_type] < max_recovery_attempts

should_attempt_recovery(error_type) ==
    /\ ~(/\ last_recovery_time[error_type] # Never
         /\ now - last_recovery_time[error_type] < recovery_cooldown)
    /\ ~(recovery_attempts[error_type] >= max_recovery_attempts)

\* handle_network_timeout_error(): its set_resolution(...) and
\* set_framerate(10) name no function of the module (set_resolution and
\* set_framerate are methods of MediaMTXCameraManager), so the call raises
\* NameError, which the handler's except turns into False; nothing is called
\* at "320p" (or an unknown resolution) with a framerate of at most 10
handle_network_timeout_error ==
    ~(current_resolution \in {"720p", "480p"} \/ current_framerate > 10)

\* the remediation attempt_recovery dispatches to, None for any other category
remediation(error_type) ==
    CASE error_type = "camera_busy" -> "handle_camera_busy_error"
      [] error_type = "network_timeout" -> "handle_network_timeout_error"
      [] error_type = "mediamtx_crash" -> "handle_mediamtx_crash"
      [] OTHER -> None

\* what the remediation can return: fuser, pkill and the mediamtx binary may
\* be missing, which the handlers' except turns into False
remediation_results(error_type) ==
    CASE error_type = "camera_busy" -> BOOLEAN
      [] error_type = "network_timeout" -> {handle_network_timeout_error}
      [] error_type = "mediamtx_crash" -> BOOLEAN
      [] OTHER -> {FALSE}

\* subprocess.run(['fuser', '-k', camera_device]): every process that has
\* the capture device open is killed; the encoders of the live stream read
\* it (-f v4l2 -i /dev/video0), so none of them is left
fuser_k(procs) == {}

\* the processes left by the remediation of error_type that returned ok:
\* handle_camera_busy_error() returns True when its fuser -k ran
remediation_leaves(error_type, ok, procs) ==
    IF error_type = "camera_busy" /\ ok THEN fuser_k(procs) ELSE procs

attempt_recovery(error_type) ==
    IF ~should_attempt_recovery(error_type)
    THEN /\ result' = [op |-> "attempt_recovery", error_type |-> error_type,
                       ok |-> FALSE, ran |-> None]
         /\ UNCHANGED <<extVars, smVars, streamVars, now, reconnVars, recoveryVars,
                        qualityVars, cpuVars, commandVars>>
    ELSE /\ recovery_attempts' = [recovery_attempts EXCEPT ![error_type] = @ + 1]
         /\ last_recovery_time' = [last_recovery_time EXCEPT ![error_type] = now]
         /\ \E ok \in remediation_results(error_type) :
               /\ result' = [op |-> "attempt_recovery", error_type |-> error_type,
                             ok |-> ok, ran |-> remediation(error_type)]
               /\ processes' = remediation_leaves(error_type, ok, processes)
         /\ UNCHANGED <<extVars, smVars, streaming_active, streaming_process,
                        stream_operation_lock, refresh_pc, refresh_child, status_pc,
                        status_pgrep, now, reconnVars, qualityVars, cpuVars, commandVars>>

\* POST /api/health/recovery
trigger_recovery == \E error_type \in ErrorTypes : attempt_recovery(error_type)

\* TickStep seconds pass
TickRecovery ==
    /\ now + TickStep <= MaxRecoveryTime
    /\ now' = now + TickStep
    /\ UNCHANGED <<extVars, smVars, result, streamVars, reconnVars, recoveryVars,
                   qualityVars, cpuVars, commandVars>>

NextRecovery ==
    \/ trigger_recovery
    \/ TickRecovery

SpecRecovery == Init /\ [][NextRecovery]_vars

\* the category has attempts left and is outside its cooldown window
C6_Allowed(e) ==
    /\ recovery_attempts[e] < 3
    /\ last_recovery_time[e] = Never \/ now - last_recovery_time[e] >= 30

C6_AttemptStep ==
    \A e \in ErrorTypes :
        attempt_recovery(e) =>
            /\ result'.ran # None => C6_Allowed(e)
            /\ ~C6_Allowed(e) =>
                  /\ ~result'.ok
                  /\ result'.ran = None
                  /\ recovery_attempts' = recovery_attempts
                  /\ last_recovery_time' = last_recovery_time

(* C6: attempt_recovery runs a category's remediation only when the        *)
(* category has fewer than 3 attempts and its last attempt is at least     *)
(* 30 s old; any other call returns False, runs no remediation and leaves  *)
(* both ledgers as they were.                                              *)
C6_RecoveryIsRateLimited == [][C6_AttemptStep]_vars

\* a fourth call was refused although the cooldown had passed, and a call of
\* another category is inside its cooldown window
C6_Witness ==
    /\ result.op = "attempt_recovery" /\ ~result.ok /\ result.ran = None
    /\ recovery_attempts[result.error_type] = 3
    /\ now - last_recovery_time[result.error_type] >= 30
    /\ \E e \in ErrorTypes :
          /\ recovery_attempts[e] \in 1..2
          /\ now - last_recovery_time[e] < 30

----------------------------------------------------------------------------
(* Stream quality: the resolution and framerate globals, the operator's    *)
(* settings endpoints and the CPU-driven reduction auto_reduce_quality.    *)

CpuLevels == {50, 75, 90}

\* the load and the CPU frequency change
cpu_changes ==
    \E c \in CpuLevels, t \in BOOLEAN :
        /\ <<c, t>> # <<cpu_usage, is_throttling>>
        /\ cpu_usage' = c
        /\ is_throttling' = t
        /\ UNCHANGED commandVars
        /\ UNCHANGED <<extVars, smVars, result, streamVars, now, reconnVars, recoveryVars,
                       qualityVars>>

\* MediaMTXCameraManager.set_resolution(resolution): a resolution that is a
\* key of camera_settings is stored; with streaming_active the stream is
\* "restarted" by the stop_streaming and start_streaming that return at once
\* save_camera_settings() with the globals at (resolution, framerate):
\* set_last_resolution stores a key of camera_settings, set_last_fps a value
\* in 1..30
save_camera_settings(resolution, framerate, store) ==
    [last_resolution |-> IF resolution \in Resolutions
                         THEN resolution ELSE store.last_resolution,
     last_fps |-> IF framerate >= 1 /\ framerate <= 30
                  THEN framerate ELSE store.last_fps]

camera_manager_set_resolution(resolution) ==
    IF resolution \in Resolutions
    THEN [resolution |-> resolution,
          ret |-> IF streaming_active
                  THEN stop_streaming_returns.ok /\ start_streaming_returns.ok
                  ELSE TRUE]
    ELSE [resolution |-> current_resolution, ret |-> FALSE]

\* POST /api/mediamtx/config with parameter "resolution":
\* set_camera_resolution(value)
mediamtx_config_resolution ==
    \E value \in Resolutions \cup {"1080p"} :
        LET e == camera_manager_set_resolution(value)
        IN  /\ current_resolution' = (IF e.ret THEN e.resolution ELSE current_resolution)
            /\ persisted' = (IF value \in Resolutions
                             THEN save_camera_settings(value, current_framerate, persisted)
                             ELSE persisted)
            /\ result' = Returned("set_camera_resolution", e.ret)
            /\ UNCHANGED <<adaptVars, watchdogVars, recordingVars, smVars, streamVars, now, reconnVars,
                           recoveryVars, current_framerate, cpuVars, commandVars>>

\* POST /api/framerate: the module global is assigned and
\* set_camera_framerate(new_framerate) stores it again and returns True
set_framerate_api ==
    \E framerate \in Framerates :
        /\ current_framerate' = framerate
        /\ persisted' = save_camera_settings(current_resolution, framerate, persisted)
        /\ result' = Returned("set_camera_framerate", TRUE)
        /\ UNCHANGED <<adaptVars, watchdogVars, recordingVars, smVars, streamVars, now, reconnVars,
                       recoveryVars, current_resolution, cpuVars, commandVars>>

\* the functions mediamtx_camera.py defines at module level to change the
\* resolution or the framerate; set_resolution and set_framerate are methods
\* of MediaMTXCameraManager and no module-level name
module_functions == {"set_camera_resolution", "set_camera_framerate"}

\* a call of the global name raises NameError
NameError(name) == name \notin module_functions

\* auto_reduce_quality() on the quality q = [resolution, framerate, raised]:
\* the first call of a name the module does not define raises out of the
\* function before anything is assigned
auto_reduce_quality_on(q, cpu, throttling) ==
    IF cpu > 85 \/ throttling
    THEN LET q1 == IF q.resolution # "320p"
                   THEN [q EXCEPT !.raised = NameError("set_resolution")]
                   ELSE q
         IN  IF ~q1.raised /\ q1.framerate > 10
             THEN [q1 EXCEPT !.raised = NameError("set_framerate")]
             ELSE q1
    ELSE IF cpu > 70
    THEN LET q1 == IF q.resolution = "720p"
                   THEN [q EXCEPT !.raised = NameError("set_resolution")]
                   ELSE q
         IN  IF ~q1.raised /\ q1.framerate > 15
             THEN [q1 EXCEPT !.raised = NameError("set_framerate")]
             ELSE q1
    ELSE q

\* POST /api/cpu/optimize: auto_reduce_quality(); an exception becomes the
\* response {'error': ...}
trigger_cpu_optimization ==
    LET q == auto_reduce_quality_on([resolution |-> current_resolution,
                                     framerate |-> current_framerate,
                                     raised |-> FALSE],
                                    cpu_usage, is_throttling)
    IN  /\ current_resolution' = q.resolution
        /\ current_framerate' = q.framerate
        /\ result' = [op |-> "auto_reduce_quality", ok |-> ~q.raised,
                      cpu_high |-> (cpu_usage > 85 \/ is_throttling),
                      was_state |-> state,
                      was_resolution |-> current_resolution,
                      was_framerate |-> current_framerate]
        /\ UNCHANGED <<extVars, smVars, streamVars, now, reconnVars, recoveryVars, cpuVars, commandVars>>

\* mutant: the threads run their round whatever the flag says
thread_streaming_active_always == TRUE

\* cpu_monitoring_thread(): "from modules.mediamtx_camera import ...,
\* streaming_active" binds the value the global has when the thread starts,
\* before any request is served
thread_streaming_active == FALSE

\* one round of cpu_monitoring_thread(): auto_reduce_quality() when its
\* streaming_active holds and the CPU usage is above 80; an exception is
\* printed
cpu_monitoring_thread ==
    LET q == IF thread_streaming_active /\ cpu_usage > 80
             THEN auto_reduce_quality_on([resolution |-> current_resolution,
                                          framerate |-> current_framerate,
                                          raised |-> FALSE],
                                         cpu_usage, is_throttling)
             ELSE [resolution |-> current_resolution,
                   framerate |-> current_framerate, raised |-> FALSE]
    IN  /\ current_resolution' = q.resolution
        /\ current_framerate' = q.framerate
        /\ result' = [op |-> "cpu_monitoring_thread", ok |-> ~q.raised,
                      called |-> (thread_streaming_active /\ cpu_usage > 80),
                      restarted |-> FALSE,
                      cpu_usage |-> cpu_usage, is_throttling |-> is_throttling,
                      was_state |-> state]
        /\ UNCHANGED <<extVars, smVars, streamVars, now, reconnVars, recoveryVars,
                       cpuVars, commandVars>>

NextQuality ==
    \/ cpu_changes
    \/ mediamtx_config_resolution
    \/ set_framerate_api
    \/ trigger_cpu_optimization
    \/ cpu_monitoring_thread
    \/ external_ffmpeg_start
    \/ process_exit
    \/ get_status_probe
    \/ get_status_sync

SpecQuality == Init /\ [][NextQuality]_vars

(* C10: when the CPU reduction runs with CPU usage above 85% (or the CPU   *)
(* throttling) while the stream is ACTIVE with resolution "720p" and       *)
(* framerate 25, it leaves the resolution at "320p" and the framerate at   *)
(* 10 or less.                                                             *)
C10_CpuPressureLowersQuality ==
    (/\ result.op = "auto_reduce_quality"
     /\ result.cpu_high
     /\ result.was_state = ACTIVE
     /\ result.was_resolution = "720p"
     /\ result.was_framerate = 25) =>
        /\ current_resolution = "320p"
        /\ current_framerate <= 10

----------------------------------------------------------------------------
(* The bandwidth manager of mediamtx_camera.py: measure_network_conditions   *)
(* and adapt_stream_quality, entered through a call of adapt_stream_quality. *)

MaxAdaptTime == 30      \* seconds of clock explored by SpecAdapt
adaptation_cooldown == 10

\* what the relay's API on localhost:9997 can answer to one measurement:
\* no answer at all (connection refused or timed out), or an answer with a
\* status code after rtt milliseconds, its session list adding up to
\* total_packets (bytesSent // 1024 over the sessions)
RelayAnswers ==
    {[reachable |-> FALSE, status |-> 0, rtt |-> 0, total_packets |-> 0]} \cup
    [reachable : {TRUE}, status : {200, 404}, rtt : {50, 150, 600, 900},
     total_packets : {0, 40}]

\* measure_network_conditions(): the rtt is the time the first request took,
\* whatever its status, and 1000 when the request raised; the packet loss is
\* lost_packets / total_packets * 100 with lost_packets = total_packets * 0.01
\* when the session list answers 200 and holds packets, else 0.0
measure_network_conditions(relay) ==
    [packet_loss_rate |->
        IF relay.reachable /\ relay.status = 200 /\ relay.total_packets > 0
        THEN (relay.total_packets * 100) \div (relay.total_packets * 100)
        ELSE 0,
     rtt_ms |-> IF relay.reachable THEN relay.rtt ELSE 1000,
     bandwidth_kbps |-> 0]

\* the module globals a settings function works on
Globals ==
    [current_resolution |-> current_resolution, current_framerate |-> current_framerate,
     persisted |-> persisted, raised |-> FALSE]

\* a call name(arg) in mediamtx_camera.py: NameError when the module defines
\* no such function; set_camera_resolution and set_camera_framerate hand
\* over to MediaMTXCameraManager.set_resolution and set_framerate, which
\* assign the global and save_camera_settings() (stop_streaming and
\* start_streaming return ok, so nothing is reverted)
call_module_function(name, arg, g) ==
    IF NameError(name)
    THEN [g EXCEPT !.raised = TRUE]
    ELSE IF name = "set_camera_resolution"
    THEN IF arg \in Resolutions
         THEN [g EXCEPT !.current_resolution = arg,
                        !.persisted = save_camera_settings(arg, g.current_framerate,
                                                           g.persisted)]
         ELSE g
    ELSE [g EXCEPT !.current_framerate = arg,
                   !.persisted = save_camera_settings(g.current_resolution, arg,
                                                      g.persisted)]

\* mutant: the resolution is applied through set_camera_resolution
adapt_resolution_setter_defined == "set_camera_resolution"

\* the names adapt_stream_quality() calls to apply a resolution and a framerate
adapt_resolution_setter == "set_resolution"
adapt_framerate_setter == "set_framerate"

\* mutant: no cooldown
in_cooldown_never(bm, t) == FALSE

\* adapt_stream_quality(): current_time - last_adaptation_time < adaptation_cooldown
in_cooldown(bm, t) == t - bm.last_adaptation_time < adaptation_cooldown

Min(a, b) == IF a < b THEN a ELSE b
Max(a, b) == IF a > b THEN a ELSE b

\* mutant: the framerate steps without max(5, ...) and min(25, ...)
adaptation_target_unclamped(bm) ==
    LET packet_loss == bm.network_conditions.packet_loss_rate
        rtt == bm.network_conditions.rtt_ms
    IN  [bitrate |->
            IF packet_loss > 10
            THEN (IF bm.current_bitrate > 16 THEN 16 ELSE bm.current_bitrate)
            ELSE IF packet_loss < 2
            THEN (IF bm.current_bitrate < 32 THEN 32 ELSE bm.current_bitrate)
            ELSE bm.current_bitrate,
         fps |->
            IF rtt > 500
            THEN (IF bm.current_fps > 5 THEN bm.current_fps - 2 ELSE bm.current_fps)
            ELSE IF rtt < 100
            THEN (IF bm.current_fps < 25 THEN bm.current_fps + 2 ELSE bm.current_fps)
            ELSE bm.current_fps,
         resolution |->
            IF packet_loss > 15 \/ rtt > 800
            THEN "320p"
            ELSE IF packet_loss < 5 /\ rtt < 200
            THEN (IF bm.current_resolution = "320p" THEN "480p"
                  ELSE bm.current_resolution)
            ELSE bm.current_resolution]

\* adapt_stream_quality(): the target it derives from the measured conditions
adaptation_target(bm) ==
    LET packet_loss == bm.network_conditions.packet_loss_rate
        rtt == bm.network_conditions.rtt_ms
    IN  [bitrate |->
            IF packet_loss > 10
            THEN (IF bm.current_bitrate > 16 THEN 16 ELSE bm.current_bitrate)
            ELSE IF packet_loss < 2
            THEN (IF bm.current_bitrate < 32 THEN 32 ELSE bm.current_bitrate)
            ELSE bm.current_bitrate,
         fps |->
            IF rtt > 500
            THEN (IF bm.current_fps > 5 THEN Max(5, bm.current_fps - 2)
                  ELSE bm.current_fps)
            ELSE IF rtt < 100
            THEN (IF bm.current_fps < 25 THEN Min(25, bm.current_fps + 2)
                  ELSE bm.current_fps)
            ELSE bm.current_fps,
         resolution |->
            IF packet_loss > 15 \/ rtt > 800
            THEN "320p"
            ELSE IF packet_loss < 5 /\ rtt < 200
            THEN (IF bm.current_resolution = "320p" THEN "480p"
                  ELSE bm.current_resolution)
            ELSE bm.current_resolution]

\* every branch that picks a new value sets adaptation_needed
adaptation_needed(bm, target) ==
    \/ target.bitrate # bm.current_bitrate
    \/ target.fps # bm.current_fps
    \/ target.resolution # bm.current_resolution

HistoryKeep == 20

\* adaptation_history.append(record); pop(0) beyond 20 records
append_adaptation(h, record) ==
    LET h2 == Append(h, record)
    IN  IF Len(h2) > HistoryKeep THEN Tail(h2) ELSE h2

\* adapt_stream_quality() at time t with the relay answering relay, on the
\* manager bm and the globals g: the manager and the globals after the call,
\* what it returned, whether it measured and the target it derived.  An
\* exception raised by a setter leaves the function through its except,
\* after last_adaptation_time was assigned.
adapt_stream_quality_on(bm, g, relay, t) ==
    IF in_cooldown(bm, t)
    THEN [bm |-> bm, g |-> g, ret |-> FALSE, measured |-> FALSE,
          target |-> [bitrate |-> bm.current_bitrate, fps |-> bm.current_fps,
                      resolution |-> bm.current_resolution]]
    ELSE
    LET bm0 == [bm EXCEPT !.network_conditions = measure_network_conditions(relay)]
        target == adaptation_target(bm0)
    IN  IF ~adaptation_needed(bm0, target)
        THEN [bm |-> bm0, g |-> g, ret |-> FALSE, measured |-> TRUE, target |-> target]
        ELSE
        LET bm1 == [bm0 EXCEPT !.last_adaptation_time = t]
            g1 == IF target.resolution # bm1.current_resolution
                  THEN call_module_function(adapt_resolution_setter,
                                            target.resolution, g)
                  ELSE g
            bm2 == IF target.resolution # bm1.current_resolution /\ ~g1.raised
                   THEN [bm1 EXCEPT !.current_resolution = target.resolution]
                   ELSE bm1
            g2 == IF ~g1.raised /\ target.fps # bm2.current_fps
                  THEN call_module_function(adapt_framerate_setter, target.fps, g1)
                  ELSE g1
            bm3 == IF ~g1.raised /\ target.fps # bm2.current_fps /\ ~g2.raised
                   THEN [bm2 EXCEPT !.current_fps = target.fps]
                   ELSE bm2
            bm4 == [bm3 EXCEPT
                       !.current_bitrate = target.bitrate,
                       !.adaptation_history =
                           append_adaptation(@,
                               [timestamp |-> t,
                                packet_loss |-> bm0.network_conditions.packet_loss_rate,
                                rtt |-> bm0.network_conditions.rtt_ms,
                                resolution |-> target.resolution,
                                fps |-> target.fps,
                                bitrate |-> target.bitrate])]
        IN  IF g2.raised
            THEN [bm |-> bm3, g |-> g2, ret |-> FALSE, measured |-> TRUE,
                  target |-> target]
            ELSE [bm |-> bm4, g |-> g2, ret |-> TRUE, measured |-> TRUE,
                  target |-> target]

\* one call of adapt_stream_quality()
adapt_stream_quality ==
    \E relay \in RelayAnswers :
        LET e == adapt_stream_quality_on(bandwidth_manager, Globals, relay, now)
        IN  /\ e.measured \/ relay = CHOOSE r \in RelayAnswers : ~r.reachable
            /\ bandwidth_manager' = e.bm
            /\ current_resolution' = e.g.current_resolution
            /\ current_framerate' = e.g.current_framerate
            /\ persisted' = e.g.persisted
            /\ result' = [op |-> "adapt_stream_quality", ok |-> e.ret,
                          measured |-> e.measured, raised |-> e.g.raised,
                          relay_ok |-> e.measured /\ relay.reachable /\ relay.status = 200,
                          target |-> e.target,
                          was |-> [resolution |-> bandwidth_manager.current_resolution,
                                   fps |-> bandwidth_manager.current_fps,
                                   bitrate |-> bandwidth_manager.current_bitrate]]
            /\ UNCHANGED <<audio_quality_monitor, last_bitrate, watchdogVars,
                           recordingVars, smVars, streamVars, now, reconnVars,
                           recoveryVars, cpuVars, commandVars>>

AdaptTickStep == 5      \* seconds between two calls explored by SpecAdapt

\* AdaptTickStep seconds pass
TickAdapt ==
    /\ now + AdaptTickStep <= MaxAdaptTime
    /\ now' = now + AdaptTickStep
    /\ UNCHANGED <<extVars, smVars, result, streamVars, reconnVars, recoveryVars,
                   qualityVars, cpuVars, commandVars>>

NextAdapt ==
    \/ adapt_stream_quality
    \/ TickAdapt
    \/ mediamtx_config_resolution
    \/ set_framerate_api

SpecAdapt == Init /\ [][NextAdapt]_vars

\* a call of adapt_stream_quality() inside the cooldown window changes
\* nothing and returns False; a call that starts a new cooldown window, or
\* changes the manager's bitrate, framerate or resolution, is at least 10 s
\* after the start of the previous window
C11_TickStep ==
    adapt_stream_quality =>
        /\ now - bandwidth_manager.last_adaptation_time < 10 =>
              /\ bandwidth_manager' = bandwidth_manager
              /\ qualityVars' = qualityVars
              /\ ~result'.ok
        /\ (\/ bandwidth_manager'.last_adaptation_time # bandwidth_manager.last_adaptation_time
            \/ bandwidth_manager'.current_bitrate # bandwidth_manager.current_bitrate
            \/ bandwidth_manager'.current_fps # bandwidth_manager.current_fps
            \/ bandwidth_manager'.current_resolution # bandwidth_manager.current_resolution
            \/ result'.ok) =>
              /\ now - bandwidth_manager.last_adaptation_time >= 10
              /\ bandwidth_manager'.last_adaptation_time = now

(* C11: no two quality adaptations are less than the 10 s cooldown apart:  *)
(* an adaptation tick inside the cooldown window changes nothing (so the   *)
(* bitrate cannot change on every tick).                                   *)
C11_CooldownBetweenAdaptations == [][C11_TickStep]_vars

\* a tick less than 10 s after an adaptation was decided has returned
\* without measuring
C11_Witness ==
    /\ result.op = "adapt_stream_quality" /\ ~result.measured
    /\ now - bandwidth_manager.last_adaptation_time \in 1..9
    /\ bandwidth_manager.network_conditions.rtt_ms > 800

----------------------------------------------------------------------------
(* Recording: RecordingManager (mediamtx_camera.py), the reliable recording  *)
(* of mediamtx_main.py behind /api/recording/start and /api/recording/stop,  *)
(* and MediaMTXRecordingManager (mediamtx_recorder.py).  Each starts its     *)
(* ffmpeg with subprocess.Popen(..., stdin=PIPE) and stops it by writing     *)
(* "q" to that pipe.                                                         *)

MaxRecordings == 2      \* recording processes started in one run

\* the process ids of recording processes are 1, 2, ... in the order of
\* their Popen
RecordingIds == 1..MaxRecordings

\* the process table after subprocess.Popen(cmd, stdin=PIPE, ...) succeeded;
\* the new process is procs.started
Popen(procs) ==
    [procs EXCEPT !.started = @ + 1, !.alive = @ \cup {procs.started + 1}]

\* process.poll() is None
poll_is_None(procs, pid) == pid \in procs.alive

\* what a recording operation returned: ok, the signals it sent to its
\* process ("q" on stdin, terminate(), kill()) and whether it started one
RecordingResult(op, ok, signals, spawned) ==
    [op |-> op, ok |-> ok, signals |-> signals, spawned |-> spawned]

\* a recording ffmpeg exits on its own (input lost, disk full, -t reached)
recording_process_exits ==
    \E pid \in recording_procs.alive :
        /\ recording_procs' = [recording_procs EXCEPT !.alive = @ \ {pid}]
        /\ UNCHANGED <<smVars, result, streamVars, now, reconnVars, recoveryVars,
                       qualityVars, cpuVars, commandVars, adaptVars, storeVars, watchdogVars,
                       recording_manager, reliable_recording, rec>>

\* how a Popen and the poll() one second later can turn out
StartOutcomes == {"running", "exited", "raises"}

\* RecordingManager.start_recording() on the manager rm
RecordingManager_start_recording_on(rm, procs, outcome) ==
    IF rm.recording_active
    THEN [rm |-> rm, procs |-> procs, ok |-> FALSE, spawned |-> FALSE]
    ELSE
    LET named == [rm EXCEPT !.current_segment = "recording.mp4"]
        started == Popen(procs)
    IN  CASE outcome = "raises" ->
                [rm |-> named, procs |-> procs, ok |-> FALSE, spawned |-> FALSE]
          [] outcome = "exited" ->
                [rm |-> [named EXCEPT !.recording_process = started.started],
                 procs |-> [started EXCEPT !.alive = @ \ {started.started}],
                 ok |-> FALSE, spawned |-> TRUE]
          [] outcome = "running" ->
                [rm |-> [named EXCEPT !.recording_process = started.started,
                                      !.recording_active = TRUE],
                 procs |-> started, ok |-> TRUE, spawned |-> TRUE]

RecordingManager_start_recording ==
    \E outcome \in StartOutcomes :
        LET e == RecordingManager_start_recording_on(recording_manager,
                                                     recording_procs, outcome)
        IN  /\ e.procs.started <= MaxRecordings
            /\ recording_manager.recording_active => outcome = "raises"
            /\ recording_manager' = e.rm
            /\ recording_procs' = e.procs
            /\ result' = RecordingResult("RecordingManager.start_recording",
                                         e.ok, {}, e.spawned)
            /\ UNCHANGED <<smVars, streamVars, now, reconnVars, recoveryVars,
                           qualityVars, cpuVars, commandVars, adaptVars, storeVars, watchdogVars,
                           reliable_recording, rec>>

\* how stopping a running process can go: it quits on "q", it has to be
\* terminated, it has to be killed, or it has still not gone one second
\* after kill() (wait(timeout=1) raises TimeoutExpired)
StopOutcomes == {"quit", "terminate", "kill", "kill_timeout"}

StopSignals(outcome) ==
    CASE outcome = "quit" -> {"q"}
      [] outcome = "terminate" -> {"q", "terminate"}
      [] OTHER -> {"q", "terminate", "kill"}

\* mutant: stop_recording() without its first check
not_recording_never(rm) == FALSE

\* RecordingManager.stop_recording(): if not self.recording_active
not_recording(rm) == ~rm.recording_active

\* RecordingManager.stop_recording() on the manager rm.  Writing to a stdin
\* that was closed raises ValueError and flushing into the pipe of a process
\* that has exited raises BrokenPipeError; these and TimeoutExpired leave
\* through "except Exception", which returns without clearing anything.
RecordingManager_stop_recording_on(rm, procs, outcome) ==
    LET pid == rm.recording_process
        cleared == [rm EXCEPT !.recording_active = FALSE, !.recording_process = NoPid,
                              !.current_segment = None]
    IN  IF not_recording(rm)
        THEN [rm |-> rm, procs |-> procs, ok |-> FALSE, signals |-> {}]
        ELSE IF pid = NoPid
        THEN [rm |-> cleared, procs |-> procs, ok |-> TRUE, signals |-> {}]
        ELSE IF pid \in procs.stdin_closed \/ ~poll_is_None(procs, pid)
        THEN [rm |-> rm, procs |-> procs, ok |-> FALSE, signals |-> {}]
        ELSE IF outcome = "kill_timeout"
        THEN [rm |-> rm,
              procs |-> [procs EXCEPT !.stdin_closed = @ \cup {pid}],
              ok |-> FALSE, signals |-> StopSignals(outcome)]
        ELSE [rm |-> cleared,
              procs |-> [procs EXCEPT !.stdin_closed = @ \cup {pid},
                                      !.alive = @ \ {pid}],
              ok |-> TRUE, signals |-> StopSignals(outcome)]

RecordingManager_stop_recording ==
    \E outcome \in StopOutcomes :
        LET e == RecordingManager_stop_recording_on(recording_manager,
                                                    recording_procs, outcome)
        IN  /\ e.signals = {} => outcome = "quit"
            /\ recording_manager' = e.rm
            /\ recording_procs' = e.procs
            /\ result' = RecordingResult("RecordingManager.stop_recording",
                                         e.ok, e.signals, FALSE)
            /\ UNCHANGED <<smVars, streamVars, now, reconnVars, recoveryVars,
                           qualityVars, cpuVars, commandVars, adaptVars, storeVars, watchdogVars,
                           reliable_recording, rec>>

\* start_recording_api(), its first step: pgrep -f 'ffmpeg.*record' and
\* kill -TERM of every pid printed, then time.sleep(1).  Every recording
\* ffmpeg has "record" in its output path; survivors are those that have not
\* exited when the sleep ends.
kill_orphaned_recordings(procs, survivors) ==
    [procs EXCEPT !.alive = survivors]

\* _start_reliable_recording() on the globals rr
start_reliable_recording(rr, procs, outcome, t) ==
    LET named == [rr EXCEPT !.recording_start_time = t,
                            !.recording_filename = "avatar_tank.mp4"]
        started == Popen(procs)
    IN  CASE outcome = "raises" ->
                [rr |-> named, procs |-> procs, ok |-> FALSE, spawned |-> FALSE]
          [] outcome = "exited" ->
                [rr |-> [named EXCEPT !.recording_process = started.started],
                 procs |-> [started EXCEPT !.alive = @ \ {started.started}],
                 ok |-> FALSE, spawned |-> TRUE]
          [] outcome = "running" ->
                [rr |-> [named EXCEPT !.recording_process = started.started],
                 procs |-> started, ok |-> TRUE, spawned |-> TRUE]

\* start_recording_api() for an authorised request: a reference to a running
\* process answers "Recording already in progress", a stale one is cleared
start_recording_api_on(rr, procs, survivors, outcome, t) ==
    LET procs1 == kill_orphaned_recordings(procs, survivors)
        unset == [recording_process |-> NoPid, recording_start_time |-> Never,
                  recording_filename |-> None]
    IN  IF rr.recording_process # NoPid /\ poll_is_None(procs1, rr.recording_process)
        THEN [rr |-> rr, procs |-> procs1, ok |-> FALSE, spawned |-> FALSE]
        ELSE start_reliable_recording(
                 IF rr.recording_process # NoPid THEN unset ELSE rr,
                 procs1, outcome, t)

start_recording_api ==
    \E survivors \in SUBSET recording_procs.alive, outcome \in StartOutcomes :
        LET e == start_recording_api_on(reliable_recording, recording_procs,
                                        survivors, outcome, now)
        IN  /\ e.procs.started <= MaxRecordings
            /\ reliable_recording' = e.rr
            /\ recording_procs' = e.procs
            /\ result' = RecordingResult("start_recording_api", e.ok,
                            IF recording_procs.alive = {} THEN {} ELSE {"terminate"},
                            e.spawned)
            /\ UNCHANGED <<smVars, streamVars, now, reconnVars, recoveryVars,
                           qualityVars, cpuVars, commandVars, adaptVars, storeVars, watchdogVars,
                           recording_manager, rec>>

\* how _stop_reliable_recording() can go: the process quits within 10 s,
\* wait(timeout=10) raises TimeoutExpired, or the process has exited when
\* "q" is flushed into its pipe (BrokenPipeError)
ReliableStopOutcomes == {"quit", "timeout", "broken_pipe"}

\* stop_recording_api() for an authorised request, with
\* _stop_reliable_recording()
stop_recording_api_on(rr, procs, outcome) ==
    LET pid == rr.recording_process
    IN  IF pid = NoPid \/ ~poll_is_None(procs, pid)
        THEN [rr |-> rr, procs |-> procs, ok |-> FALSE, signals |-> {}]
        ELSE CASE outcome = "quit" ->
                    [rr |-> [recording_process |-> NoPid,
                             recording_start_time |-> Never,
                             recording_filename |-> None],
                     procs |-> [procs EXCEPT !.alive = @ \ {pid}],
                     ok |-> TRUE, signals |-> {"q"}]
               [] outcome = "timeout" ->
                    [rr |-> [rr EXCEPT !.recording_process = NoPid],
                     procs |-> [procs EXCEPT !.alive = @ \ {pid}],
                     ok |-> FALSE, signals |-> {"q", "kill"}]
               [] outcome = "broken_pipe" ->
                    [rr |-> rr,
                     procs |-> [procs EXCEPT !.alive = @ \ {pid}],
                     ok |-> FALSE, signals |-> {}]

stop_recording_api ==
    \E outcome \in ReliableStopOutcomes :
        LET e == stop_recording_api_on(reliable_recording, recording_procs, outcome)
        IN  /\ (e.procs = recording_procs) => outcome = "quit"
            /\ reliable_recording' = e.rr
            /\ recording_procs' = e.procs
            /\ result' = RecordingResult("stop_recording_api", e.ok, e.signals, FALSE)
            /\ UNCHANGED <<smVars, streamVars, now, reconnVars, recoveryVars,
                           qualityVars, cpuVars, commandVars, adaptVars, storeVars, watchdogVars,
                           recording_manager, rec>>

\* MediaMTXRecordingManager.start(): refused while running or while the
\* audio device is marked busy; after a Popen that succeeded the monitor
\* thread is started
MediaMTXRecordingManager_start_on(r, procs, outcome) ==
    IF r.running \/ r.audio_device_busy
    THEN [rec |-> r, procs |-> procs, ok |-> FALSE, spawned |-> FALSE]
    ELSE
    LET named == [r EXCEPT !.audio_device_busy = TRUE, !.last_file = "recording.mp4"]
        started == Popen(procs)
    IN  IF outcome = "raises"
        THEN [rec |-> [named EXCEPT !.running = FALSE, !.audio_device_busy = FALSE],
              procs |-> procs, ok |-> FALSE, spawned |-> FALSE]
        ELSE [rec |-> [named EXCEPT
                          !.process = started.started,
                          !.running = TRUE,
                          !.monitors = @ \cup {[session |-> started.started,
                                                pc |-> "started", target |-> NoPid]}],
              procs |-> started, ok |-> TRUE, spawned |-> TRUE]

MediaMTXRecordingManager_start ==
    \E outcome \in {"running", "raises"} :
        LET e == MediaMTXRecordingManager_start_on(rec, recording_procs, outcome)
        IN  /\ e.procs.started <= MaxRecordings
            /\ (rec.running \/ rec.audio_device_busy) => outcome = "raises"
            /\ rec' = e.rec
            /\ recording_procs' = e.procs
            /\ result' = RecordingResult("MediaMTXRecordingManager.start",
                                         e.ok, {}, e.spawned)
            /\ UNCHANGED <<smVars, streamVars, now, reconnVars, recoveryVars,
                           qualityVars, cpuVars, commandVars, adaptVars, storeVars, watchdogVars,
                           recording_manager, reliable_recording>>

\* _monitor_recording(), up to the wait inside self.process.communicate():
\* with self.process None the thread returns; communicate() without input
\* closes the process's stdin before it waits
monitor_recording_communicate ==
    \E m \in rec.monitors :
        /\ m.pc = "started"
        /\ IF rec.process = NoPid
           THEN /\ rec' = [rec EXCEPT !.monitors = @ \ {m}]
                /\ UNCHANGED recording_procs
           ELSE /\ rec' = [rec EXCEPT !.monitors =
                              (@ \ {m}) \cup {[m EXCEPT !.pc = "communicating",
                                                        !.target = rec.process]}]
                /\ recording_procs' = [recording_procs EXCEPT
                                          !.stdin_closed = @ \cup {rec.process}]
        /\ UNCHANGED <<smVars, result, streamVars, now, reconnVars, recoveryVars,
                       qualityVars, cpuVars, commandVars, adaptVars, storeVars, watchdogVars,
                       recording_manager, reliable_recording>>

\* _monitor_recording(), once the process it waits for has exited: its
\* finally clears running, the busy mark and self.process
monitor_recording_finally ==
    \E m \in rec.monitors :
        /\ m.pc = "communicating"
        /\ ~poll_is_None(recording_procs, m.target)
        /\ rec' = [rec EXCEPT !.running = FALSE, !.audio_device_busy = FALSE,
                              !.process = NoPid, !.monitors = @ \ {m}]
        /\ UNCHANGED <<smVars, result, streamVars, now, reconnVars, recoveryVars,
                       qualityVars, cpuVars, commandVars, adaptVars, storeVars, watchdogVars,
                       recording_procs, recording_manager, reliable_recording>>

\* how MediaMTXRecordingManager.stop() can go with a running process
RecorderStopOutcomes == {"quit", "terminate", "kill"}

\* MediaMTXRecordingManager.stop(): the write of "q" raises on a stdin that
\* was closed (ValueError) or whose process has exited (BrokenPipeError);
\* the except clears running and the busy mark only
MediaMTXRecordingManager_stop_on(r, procs, outcome) ==
    LET pid == r.process
    IN  IF ~r.running \/ pid = NoPid
        THEN [rec |-> r, procs |-> procs, ok |-> FALSE, signals |-> {}]
        ELSE IF pid \in procs.stdin_closed \/ ~poll_is_None(procs, pid)
        THEN [rec |-> [r EXCEPT !.running = FALSE, !.audio_device_busy = FALSE],
              procs |-> procs, ok |-> FALSE, signals |-> {}]
        ELSE [rec |-> [r EXCEPT !.running = FALSE, !.audio_device_busy = FALSE,
                                !.last_file = None],
              procs |-> [procs EXCEPT !.alive = @ \ {pid}],
              ok |-> TRUE, signals |-> StopSignals(outcome)]

MediaMTXRecordingManager_stop ==
    \E outcome \in RecorderStopOutcomes :
        LET e == MediaMTXRecordingManager_stop_on(rec, recording_procs, outcome)
        IN  /\ e.signals = {} => outcome = "quit"
            /\ rec' = e.rec
            /\ recording_procs' = e.procs
            /\ result' = RecordingResult("MediaMTXRecordingManager.stop",
                                         e.ok, e.signals, FALSE)
            /\ UNCHANGED <<smVars, streamVars, now, reconnVars, recoveryVars,
                           qualityVars, cpuVars, commandVars, adaptVars, storeVars, watchdogVars,
                           recording_manager, reliable_recording>>

NextRecording ==
    \/ RecordingManager_start_recording
    \/ RecordingManager_stop_recording
    \/ start_recording_api
    \/ stop_recording_api
    \/ MediaMTXRecordingManager_start
    \/ MediaMTXRecordingManager_stop
    \/ monitor_recording_communicate
    \/ monitor_recording_finally
    \/ recording_process_exits

SpecRecording == Init /\ [][NextRecording]_vars

\* the stop returned a failure, sent no signal and left every recording
\* session and process as it was
C12_Refused ==
    /\ ~result'.ok
    /\ result'.signals = {}
    /\ recordingVars' = recordingVars

C12_StopStep ==
    /\ (RecordingManager_stop_recording /\ ~recording_manager.recording_active)
          => C12_Refused
    /\ (/\ stop_recording_api
        /\ \/ reliable_recording.recording_process = NoPid
           \/ reliable_recording.recording_process \notin recording_procs.alive)
          => C12_Refused
    /\ (MediaMTXRecordingManager_stop /\ ~rec.running)
          => C12_Refused

(* C12: a stop of the recording called while no recording session is       *)
(* active returns a failure, sends no signal to any process and leaves the *)
(* recording state unchanged (RecordingManager.stop_recording,             *)
(* stop_recording_api and MediaMTXRecordingManager.stop).                  *)
C12_StopWithoutSessionFails == [][C12_StopStep]_vars

\* after a session was stopped, a second stop_recording() was refused while
\* another recording process is running
C12_Witness ==
    /\ result.op = "RecordingManager.stop_recording"
    /\ ~result.ok /\ result.signals = {}
    /\ ~recording_manager.recording_active
    /\ recording_manager.recording_process = NoPid
    /\ recording_procs.started >= 2
    /\ recording_procs.alive # {}

C13_StopStep ==
    /\ (RecordingManager_stop_recording /\ recording_manager.recording_active) =>
          recording_manager' = [recording_active |-> FALSE,
                                recording_process |-> NoPid,
                                current_segment |-> None]
    /\ (/\ stop_recording_api
        /\ reliable_recording.recording_process \in recording_procs.alive) =>
          reliable_recording' = [recording_process |-> NoPid,
                                 recording_start_time |-> Never,
                                 recording_filename |-> None]
    /\ (MediaMTXRecordingManager_stop /\ rec.running /\ rec.process # NoPid) =>
          /\ ~rec'.running
          /\ rec'.last_file = None

(* C13: every stop of the recording called on an active session ends with  *)
(* the session record cleared (not active, no process handle, no file      *)
(* path), whichever path the stop takes.                                   *)
C13_StopClearsSession == [][C13_StopStep]_vars

----------------------------------------------------------------------------
(* FrameWatchdog of mediamtx_camera.py, entered through start_watchdog,      *)
(* stop_watchdog and update_frame_time; each start_watchdog that goes ahead  *)
(* starts a watchdog_loop thread.                                            *)

MaxWatchdogTime == 121  \* seconds of clock explored by SpecWatchdog
WatchdogStep == 11      \* seconds between two looks at the clock in SpecWatchdog
MaxLoops == 2           \* watchdog_loop threads alive at once

watchdog_timeout == 10

\* FrameWatchdog.start_watchdog()
start_watchdog ==
    /\ frame_watchdog.watchdog_active \/ frame_watchdog.loops < MaxLoops
    /\ frame_watchdog' =
          IF frame_watchdog.watchdog_active
          THEN frame_watchdog
          ELSE [frame_watchdog EXCEPT !.watchdog_active = TRUE,
                                      !.last_frame_time = now,
                                      !.loops = @ + 1]
    /\ result' = Returned("start_watchdog", TRUE)
    /\ UNCHANGED <<smVars, streamVars, now, reconnVars, recoveryVars, qualityVars,
                   cpuVars, commandVars, adaptVars, storeVars, recordingVars>>

\* FrameWatchdog.stop_watchdog(): the flag is cleared; the join gives up
\* after 2 s
stop_watchdog ==
    /\ frame_watchdog' = [frame_watchdog EXCEPT !.watchdog_active = FALSE]
    /\ result' = Returned("stop_watchdog", TRUE)
    /\ UNCHANGED <<smVars, streamVars, now, reconnVars, recoveryVars, qualityVars,
                   cpuVars, commandVars, adaptVars, storeVars, recordingVars>>

\* FrameWatchdog.update_frame_time()
update_frame_time ==
    /\ frame_watchdog' = [frame_watchdog EXCEPT !.last_frame_time = now]
    /\ result' = Returned("update_frame_time", TRUE)
    /\ UNCHANGED <<smVars, streamVars, now, reconnVars, recoveryVars, qualityVars,
                   cpuVars, commandVars, adaptVars, storeVars, recordingVars>>

\* error_recovery_manager.attempt_recovery(error_type) at time t on the
\* ledgers: the ledgers after the call, what it returned and the remediation
\* it ran
attempt_recovery_on(error_type, attempts, last_time, t, remediation_ok) ==
    IF \/ (last_time[error_type] # Never /\ t - last_time[error_type] < recovery_cooldown)
       \/ attempts[error_type] >= max_recovery_attempts
    THEN [recovery_attempts |-> attempts, last_recovery_time |-> last_time,
          ret |-> FALSE, ran |-> None]
    ELSE [recovery_attempts |-> [attempts EXCEPT ![error_type] = @ + 1],
          last_recovery_time |-> [last_time EXCEPT ![error_type] = t],
          ret |-> remediation_ok, ran |-> remediation(error_type)]

\* mutant: every round finds the frames overdue
no_frames_received_always(fw, t) == TRUE

\* watchdog_loop: current_time - self.last_frame_time > self.watchdog_timeout
no_frames_received(fw, t) == t - fw.last_frame_time > watchdog_timeout

\* one round of a watchdog_loop thread: with the flag cleared the thread
\* ends; with no frame for more than watchdog_timeout seconds it calls
\* attempt_recovery("network_timeout"), drops what the call returns and
\* restarts the wait for a frame
watchdog_loop ==
    /\ frame_watchdog.loops > 0
    /\ IF ~frame_watchdog.watchdog_active
       THEN /\ frame_watchdog' = [frame_watchdog EXCEPT !.loops = @ - 1]
            /\ UNCHANGED <<recoveryVars, result>>
       ELSE IF no_frames_received(frame_watchdog, now)
       THEN LET a == attempt_recovery_on("network_timeout", recovery_attempts,
                                         last_recovery_time, now,
                                         handle_network_timeout_error)
            IN  /\ recovery_attempts' = a.recovery_attempts
                /\ last_recovery_time' = a.last_recovery_time
                /\ frame_watchdog' = [frame_watchdog EXCEPT !.last_frame_time = now]
                /\ result' = [op |-> "watchdog_loop", ok |-> a.ret, ran |-> a.ran]
       ELSE UNCHANGED <<frame_watchdog, recoveryVars, result>>
    /\ UNCHANGED <<smVars, streamVars, now, reconnVars, qualityVars,
                   cpuVars, commandVars, adaptVars, storeVars, recordingVars>>

\* WatchdogStep seconds pass
TickWatchdog ==
    /\ now + WatchdogStep <= MaxWatchdogTime
    /\ now' = now + WatchdogStep
    /\ UNCHANGED <<extVars, smVars, result, streamVars, reconnVars, recoveryVars,
                   qualityVars, cpuVars, commandVars>>

NextWatchdog ==
    \/ start_watchdog
    \/ stop_watchdog
    \/ update_frame_time
    \/ watchdog_loop
    \/ TickWatchdog
    \/ external_ffmpeg_start
    \/ get_status_probe
    \/ get_status_sync

SpecWatchdog == Init /\ [][NextWatchdog]_vars

\* the watchdog_loop threads keep running and time passes
FairSpecWatchdog == SpecWatchdog /\ WF_vars(watchdog_loop) /\ WF_vars(TickWatchdog)

\* the watchdog found the frames stale and its recovery request was refused
\* with the network_timeout attempts used up
C14_Exhausted ==
    /\ result.op = "watchdog_loop" /\ result.ran = None
    /\ recovery_attempts["network_timeout"] >= max_recovery_attempts
    /\ frame_watchdog.watchdog_active
    /\ state = ACTIVE

(* C14: automatic recovery never loops silently: once the watchdog's       *)
(* recovery request is refused with the network_timeout attempts used up   *)
(* while the state is ACTIVE, eventually the state is ERROR or STOPPED,    *)
(* unless a frame arrives or the watchdog is stopped.                      *)
C14_ExhaustedRecoverySettles ==
    C14_Exhausted ~> (\/ state \in {ERROR, STOPPED}
                      \/ result.op \in {"update_frame_time", "stop_watchdog"})

----------------------------------------------------------------------------
(* Further properties of the streaming control surface, under Spec *)

C15_StopStep ==
    (stop_streaming /\ state \in {STOPPED, STOPPING}) =>
        /\ ~result'.ok
        /\ state' = state
        /\ processes' = processes

(* C15: stop_streaming called while the state is STOPPED or STOPPING       *)
(* returns a rejection, leaves the state unchanged and signals no process. *)
C15_StopWhileStoppedIsRejected == [][C15_StopStep]_vars

C16_StartStep ==
    start_streaming =>
        /\ (state \in {STOPPED, ERROR} /\ result'.ok) =>
              /\ state_history' # state_history
              /\ STARTING \in {state_history'[i] : i \in 1..Len(state_history')}
                    \cup {state'}
              /\ LiveEncoders' # LiveEncoders
        /\ ~result'.ok =>
              /\ state' = state
              /\ processes' = processes
        /\ state \in {STOPPED, ERROR} => result'.ok

(* C16: of the start_streaming calls issued from STOPPED or ERROR exactly  *)
(* one passes the transition into STARTING and spawns an encoder: a call   *)
(* made in STOPPED or ERROR is accepted, an accepted call has moved the    *)
(* state through STARTING and spawned an encoder, and a rejected call      *)
(* changes nothing.                                                        *)
C16_OneStartPassesIntoStarting == [][C16_StartStep]_vars

(* C17: the state is never left in STARTING with no start in progress:     *)
(* whenever the state is STARTING, a request that moves the state is in    *)
(* flight.                                                                 *)
C17_StartingHasStartInProgress ==
    state = STARTING =>
        \/ status_pc # "idle"
        \/ \E r \in Requests : refresh_pc[r] # "idle"

(* C18: the frame watchdog is running exactly when the stream state is     *)
(* ACTIVE.                                                                 *)
C18_WatchdogRunsIffActive ==
    frame_watchdog.watchdog_active <=> state = ACTIVE

----------------------------------------------------------------------------
(* The adaptive machinery next to the operator's settings endpoints:       *)
(* adapt_stream_quality, auto_reduce_quality and the network_timeout       *)
(* remediation of ErrorRecoveryManager.                                    *)

\* error_recovery_manager.attempt_recovery("network_timeout")
network_timeout_recovery == attempt_recovery("network_timeout")

NextAdaptive ==
    \/ adapt_stream_quality
    \/ trigger_cpu_optimization
    \/ cpu_monitoring_thread
    \/ network_timeout_recovery
    \/ cpu_changes
    \/ mediamtx_config_resolution
    \/ set_framerate_api

SpecAdaptive == Init /\ [][NextAdaptive]_vars

C19_Step ==
    /\ (\/ adapt_stream_quality
        \/ trigger_cpu_optimization
        \/ cpu_monitoring_thread
        \/ network_timeout_recovery) => persisted' = persisted
    /\ persisted' # persisted => (mediamtx_config_resolution \/ set_framerate_api)

(* C19: no step of the adaptive machinery (adapt_stream_quality,           *)
(* auto_reduce_quality, the network_timeout remediation) writes the        *)
(* persisted last_resolution and last_fps; only the operator's resolution  *)
(* and framerate calls change them.                                        *)
C19_AdaptationIsNotPersisted == [][C19_Step]_vars

\* with "720p" persisted by the operator, an adaptation tick has decided to
\* go down to "320p" and the CPU reduction has been asked for at high load
C19_Witness ==
    /\ result.op = "adapt_stream_quality"
    /\ result.target.resolution = "320p" /\ result.was.resolution = "480p"
    /\ persisted = [last_resolution |-> "720p", last_fps |-> 25]
    /\ cpu_usage > 85
    /\ recovery_attempts["network_timeout"] = 1

(* C20: when the relay's API does not answer, or answers with a status    *)
(* other than 200, during an adaptation tick, the tick raises no error and *)
(* derives no change of the quality target: the target it arrives at is    *)
(* the quality it started from.                                            *)
C20_UnknownConditionsChangeNothing ==
    (result.op = "adapt_stream_quality" /\ result.measured /\ ~result.relay_ok) =>
        /\ ~result.raised
        /\ result.target = result.was

----------------------------------------------------------------------------
(* The adaptation history: the record keeping at the end of                 *)
(* adapt_stream_quality() (mediamtx_camera.py) and the status endpoint      *)
(* /api/bandwidth/status (mediamtx_main.py) that hands the history out.     *)
(* The record keeping is a function of the history and the record alone;    *)
(* it is applied here to one decided adaptation after the other, each as    *)
(* soon as the cooldown of the previous one has passed.                     *)

MaxHistoryRecords == 30     \* adaptations recorded by SpecHistory
StatusHistoryLen == 5

\* h[-n:] of Python
LastRecords(h, n) ==
    IF Len(h) <= n THEN h ELSE SubSeq(h, Len(h) - n + 1, Len(h))

\* adaptation_record of adapt_stream_quality() at time t for the manager bm
\* whose new values are already in place
adaptation_record(bm, t) ==
    [timestamp |-> t,
     packet_loss |-> bm.network_conditions.packet_loss_rate,
     rtt |-> bm.network_conditions.rtt_ms,
     resolution |-> bm.current_resolution,
     fps |-> bm.current_fps,
     bitrate |-> bm.current_bitrate]

\* adapt_stream_quality() from "Apply adaptations if needed" on, for an
\* adaptation that was decided outside the cooldown and whose new values
\* were assigned: last_adaptation_time, the record, the pop beyond 20
record_adaptation ==
    /\ ~in_cooldown(bandwidth_manager, now)
    /\ now < adaptation_cooldown * MaxHistoryRecords
    /\ bandwidth_manager' =
          [bandwidth_manager EXCEPT
              !.last_adaptation_time = now,
              !.adaptation_history =
                  append_adaptation(@, adaptation_record(bandwidth_manager, now))]
    /\ result' = [op |-> "adapt_stream_quality", ok |-> TRUE]
    /\ UNCHANGED <<audio_quality_monitor, last_bitrate, storeVars, watchdogVars, recordingVars, smVars, streamVars, now,
                   reconnVars, recoveryVars, qualityVars, cpuVars, commandVars>>

\* the cooldown of the last adaptation passes
TickCooldown ==
    /\ in_cooldown(bandwidth_manager, now)
    /\ now' = now + adaptation_cooldown
    /\ UNCHANGED <<extVars, smVars, result, streamVars, reconnVars, recoveryVars,
                   qualityVars, cpuVars, commandVars>>

\* GET /api/bandwidth/status
get_bandwidth_status ==
    /\ result' = [op |-> "get_bandwidth_status", ok |-> TRUE,
                  adaptation_history |->
                      LastRecords(bandwidth_manager.adaptation_history,
                                  StatusHistoryLen),
                  last_adaptation_time |-> bandwidth_manager.last_adaptation_time]
    /\ UNCHANGED <<extVars, smVars, streamVars, now, reconnVars, recoveryVars,
                   qualityVars, cpuVars, commandVars>>

NextHistory ==
    \/ record_adaptation
    \/ TickCooldown
    \/ get_bandwidth_status

SpecHistory == Init /\ [][NextHistory]_vars

\* the history holds at most 20 records; a recorded adaptation appends its
\* one record and keeps the 20 most recent in order; the status endpoint
\* returns the records the history holds
C21_Step ==
    /\ Len(bandwidth_manager'.adaptation_history) <= 20
    /\ record_adaptation =>
          bandwidth_manager'.adaptation_history =
              LastRecords(Append(bandwidth_manager.adaptation_history,
                                 adaptation_record(bandwidth_manager, now)), 20)
    /\ get_bandwidth_status =>
          result'.adaptation_history = bandwidth_manager.adaptation_history

C21_HistoryKept ==
    [][/\ Len(bandwidth_manager'.adaptation_history) <= 20
       /\ record_adaptation =>
             bandwidth_manager'.adaptation_history =
                 LastRecords(Append(bandwidth_manager.adaptation_history,
                                    adaptation_record(bandwidth_manager, now)), 20)]_vars

\* more than 20 adaptations were recorded and the oldest ones dropped
C21_Dropped ==
    /\ Len(bandwidth_manager.adaptation_history) = 20
    /\ bandwidth_manager.adaptation_history[1].timestamp > 0
    /\ result.op = "get_bandwidth_status"
    /\ Len(result.adaptation_history) = 5

----------------------------------------------------------------------------
(* Further properties of the recording managers, checked under             *)
(* SpecRecording.                                                          *)

\* start_recording_api() called while the process it started is running:
\* it is refused, starts nothing, and leaves its globals and the running
\* process as they were
C22_ApiStep ==
    (/\ start_recording_api
     /\ reliable_recording.recording_process # NoPid
     /\ poll_is_None(recording_procs, reliable_recording.recording_process)) =>
        /\ ~result'.ok
        /\ ~result'.spawned
        /\ reliable_recording' = reliable_recording
        /\ recording_procs' = recording_procs

\* the same for RecordingManager.start_recording() and
\* MediaMTXRecordingManager.start()
C22_ManagerStep ==
    /\ (RecordingManager_start_recording /\ recording_manager.recording_active) =>
          /\ ~result'.ok /\ ~result'.spawned
          /\ recording_manager' = recording_manager
          /\ recording_procs' = recording_procs
    /\ (MediaMTXRecordingManager_start /\ rec.running) =>
          /\ ~result'.ok /\ ~result'.spawned
          /\ rec' = rec
          /\ recording_procs' = recording_procs

(* C22: a start of a recording while a session is active is rejected,      *)
(* spawns no encoder and leaves the session record (and its encoder)       *)
(* unchanged, so that at most one recording encoder runs at a time.        *)
C22_StartWhileActiveIsRejected ==
    [][/\ C22_ApiStep
       /\ C22_ManagerStep
       /\ Cardinality(recording_procs'.alive) <= 1]_vars

\* the two manager classes on their own
C22_ManagersReject == [][C22_ManagerStep]_vars

\* the route /api/recording/start on its own
C22_ApiRejects == [][C22_ApiStep]_vars

\* SpecRecording with the monitor threads of MediaMTXRecordingManager running
\* and with RecordingManager.stop_recording() and start_recording() called
\* again and again
FairSpecRecording ==
    /\ SpecRecording
    /\ WF_vars(monitor_recording_communicate)
    /\ WF_vars(monitor_recording_finally)
    /\ WF_vars(RecordingManager_stop_recording)
    /\ WF_vars(RecordingManager_start_recording)

\* get_recording_status() of RecordingManager reports a session whose
\* process has exited
C23_DeadSession ==
    /\ recording_manager.recording_active
    /\ recording_manager.recording_process # NoPid
    /\ ~poll_is_None(recording_procs, recording_manager.recording_process)

\* the same for MediaMTXRecordingManager
C23_DeadRecorderSession ==
    /\ rec.running
    /\ rec.process # NoPid
    /\ ~poll_is_None(recording_procs, rec.process)

(* C23: when the recording encoder exits on its own while a session is     *)
(* active, the session record is eventually cleared (the status stops      *)
(* reporting it active and a new start is accepted).                       *)
C23_DeadSessionIsCleared ==
    /\ C23_DeadSession ~> ~recording_manager.recording_active
    /\ C23_DeadRecorderSession ~> ~rec.running

\* no step takes RecordingManager out of a session whose process has exited
C23_DeadSessionStays ==
    [][C23_DeadSession => C23_DeadSession']_vars

\* the session of MediaMTXRecordingManager alone
C23_DeadRecorderSessionIsCleared == C23_DeadRecorderSession ~> ~rec.running

----------------------------------------------------------------------------
(* The state history of StreamStateManager over runs longer than its bound: *)
(* set_state() and get_state_history() called without a limit on the       *)
(* number of transitions.                                                  *)

\* set_state(new_state) and set_state(new_state, process_id=1) with any state
set_state_any ==
    \E t \in StreamState, p \in {NoPid, 1} : set_state(t, p, None)

\* get_state_history(): a copy of the list
get_state_history ==
    /\ result' = [op |-> "get_state_history", ok |-> TRUE, history |-> state_history]
    /\ emitted' = <<>>
    /\ UNCHANGED <<restVars, state, state_info, state_history, event_callbacks,
                   streamVars>>

NextStateHistory ==
    \/ set_state_any
    \/ get_state_history

SpecStateHistory == InitStateManager /\ [][NextStateHistory]_vars

\* an accepted set_state() appends the state it left and keeps the last 10
\* entries in order; a rejected one and get_state_history() leave the
\* history alone, and get_state_history() returns it
C24_Step ==
    /\ Len(state_history') <= 10
    /\ set_state_any =>
          IF is_valid_transition(state, state')
          THEN /\ result'.ok
               /\ state_history' = LastRecords(Append(state_history, state), 10)
          ELSE /\ ~result'.ok
               /\ state_history' = state_history
    /\ get_state_history =>
          /\ result'.history = state_history
          /\ state_history' = state_history

(* C24: the state history holds at most 10 entries; each accepted          *)
(* transition appends exactly one entry recording the outgoing state, in   *)
(* order, and the oldest entry is dropped beyond the bound.                *)
C24_HistoryBounded == [][C24_Step]_vars

\* more than 10 transitions were accepted: the history is full and its
\* first entry is no longer the initial STOPPED
C24_Witness ==
    /\ Len(state_history) = 10
    /\ state_history[1] # STOPPED
    /\ state_history[10] = ACTIVE
    /\ state = STOPPING

----------------------------------------------------------------------------
(* StreamStateManager with several state-change callbacks registered.      *)

MaxSubscribers == 2     \* callbacks registered in SpecSubscribers

\* add_event_callback(callback), up to MaxSubscribers callbacks
add_event_callback_to_list ==
    \E cb \in Callbacks :
        /\ Len(event_callbacks) < MaxSubscribers
        /\ event_callbacks' = Append(event_callbacks, cb)
        /\ emitted' = <<>>
        /\ result' = Returned("add_event_callback", TRUE)
        /\ UNCHANGED <<restVars, state, state_info, state_history, streamVars>>

NextSubscribers ==
    \/ SetStateCall
    \/ add_event_callback_to_list

SpecSubscribers == InitStateManager /\ [][NextSubscribers]_vars

\* what one call of set_state() did to the callbacks: an accepted
\* transition has called each registered callback once, in list order,
\* with the state left and the state entered, and has returned True with
\* the new state in place; a rejected one has called none
C25_Step ==
    SetStateCall =>
        IF result'.ok
        THEN /\ is_valid_transition(state, state')
             /\ Len(emitted') = Len(event_callbacks)
             /\ \A i \in 1..Len(event_callbacks) :
                   /\ emitted'[i].callback = event_callbacks[i]
                   /\ emitted'[i].old = state
                   /\ emitted'[i].new = state'
        ELSE /\ emitted' = <<>>
             /\ state' = state

(* C25: every accepted transition notifies every registered subscriber     *)
(* exactly once with the old and the new state, in registration order,     *)
(* before set_state returns; a subscriber that raises neither keeps the    *)
(* later ones from being notified nor undoes the transition.               *)
C25_EverySubscriberNotifiedOnce == [][C25_Step]_vars

\* a transition into ACTIVE with a raising callback registered before
\* another one: both were called and the state is ACTIVE
C25_Witness ==
    /\ event_callbacks = <<"cb_raises", "cb_ok">>
    /\ Len(emitted) = 2
    /\ emitted[1].callback = "cb_raises"
    /\ emitted[2].callback = "cb_ok"
    /\ emitted[2].old = STARTING
    /\ emitted[2].new = ACTIVE
    /\ state = ACTIVE
    /\ result.ok

----------------------------------------------------------------------------
(* handle_stream_failure() called from several threads at once.  Neither   *)
(* it nor start_reconnection_attempt() takes a lock: the test in           *)
(* should_attempt_reconnection() and the assignments that follow it are    *)
(* separate steps, and a thread switch can fall between them.  Each call   *)
(* is followed through its delayed_reconnection thread.                    *)

\* handle_stream_failure() of call i, up to the return of
\* should_attempt_reconnection() inside start_reconnection_attempt()
handle_stream_failure_check(i) ==
    /\ failure_calls[i] = "idle"
    /\ reconnection_state' = [reconnection_state EXCEPT !.last_failure_time = now]
    /\ failure_calls' =
          [failure_calls EXCEPT
              ![i] = IF should_attempt_reconnection(reconnection_state)
                     THEN "may_attempt" ELSE "refused"]
    /\ UNCHANGED <<extVars, smVars, result, streamVars, now, reconnect_thread,
                   recoveryVars, qualityVars, cpuVars, commandVars>>

\* the rest of the call: a refused one returns; the other sets
\* is_reconnecting, counts the attempt and starts its delayed_reconnection
\* thread, which sleeps
handle_stream_failure_attempt(i) ==
    /\ failure_calls[i] \in {"may_attempt", "refused"}
    /\ IF failure_calls[i] = "refused"
       THEN /\ failure_calls' = [failure_calls EXCEPT ![i] = "idle"]
            /\ UNCHANGED reconnection_state
       ELSE /\ failure_calls' = [failure_calls EXCEPT ![i] = "sleeping"]
            /\ reconnection_state' =
                  [reconnection_state EXCEPT !.is_reconnecting = TRUE,
                                             !.attempts = @ + 1,
                                             !.consecutive_failures = @ + 1]
    /\ result' = Returned("handle_stream_failure", failure_calls[i] = "may_attempt")
    /\ UNCHANGED <<extVars, smVars, streamVars, now, reconnect_thread,
                   recoveryVars, qualityVars, cpuVars, commandVars>>

\* delayed_reconnection() of call i after its sleep: it ends when
\* is_reconnecting is no longer set, else stop_streaming() and sleep(1)
delayed_reconnection_wakes(i) ==
    /\ failure_calls[i] = "sleeping"
    /\ failure_calls' =
          [failure_calls EXCEPT
              ![i] = IF reconnection_state.is_reconnecting THEN "stopped" ELSE "idle"]
    /\ UNCHANGED <<extVars, smVars, result, streamVars, now, reconnection_state,
                   reconnect_thread, recoveryVars, qualityVars, cpuVars, commandVars>>

\* delayed_reconnection() of call i: start_streaming() and what follows
delayed_reconnection_restarts(i) ==
    /\ failure_calls[i] = "stopped"
    /\ reconnection_state' =
          IF start_streaming_returns.ok
          THEN reset_reconnection_state(reconnection_state)
          ELSE [reconnection_state EXCEPT !.is_reconnecting = FALSE]
    /\ failure_calls' = [failure_calls EXCEPT ![i] = "idle"]
    /\ result' = Returned("delayed_reconnection", start_streaming_returns.ok)
    /\ UNCHANGED <<extVars, smVars, streamVars, now, reconnect_thread,
                   recoveryVars, qualityVars, cpuVars, commandVars>>

NextReconnectCalls ==
    \/ \E i \in Requests : handle_stream_failure_check(i)
    \/ \E i \in Requests : handle_stream_failure_attempt(i)
    \/ \E i \in Requests : delayed_reconnection_wakes(i)
    \/ \E i \in Requests : delayed_reconnection_restarts(i)
    \/ TickSecond

SpecReconnectCalls == Init /\ [][NextReconnectCalls]_vars

\* the delayed_reconnection threads that have been started and have not ended
C26_PendingRetries == {i \in Requests : failure_calls[i] \in {"sleeping", "stopped"}}

\* a call starts an attempt only while none is in progress and fewer than 5
\* were made; there are never more than 5 attempts nor more than one
\* pending retry
C26_Step ==
    /\ reconnection_state'.attempts <= 5
    /\ Cardinality(C26_PendingRetries') <= 1
    /\ \A i \in Requests :
          (handle_stream_failure_attempt(i) /\ failure_calls'[i] = "sleeping") =>
              /\ ~reconnection_state.is_reconnecting
              /\ reconnection_state.attempts < 5

(* C26: attempts never exceeds 5 and at most one deferred retry is pending *)
(* at any time: a reconnection attempt is refused while is_reconnecting is *)
(* set or attempts >= 5, under any interleaving of concurrent stream       *)
(* failures and retry completions.                                         *)
C26_OneRetryAtATime == [][C26_Step]_vars

\* the cap alone
C26_AttemptsCapped == reconnection_state.attempts <= 5

----------------------------------------------------------------------------
(* The reconnection state machine next to the one path that sets ACTIVE,   *)
(* the synchronisation in get_status().                                    *)

NextReconnectActive ==
    \/ handle_stream_failure
    \/ delayed_reconnection_stop
    \/ delayed_reconnection_start
    \/ TickSecond
    \/ external_ffmpeg_start
    \/ process_exit
    \/ get_status_probe
    \/ get_status_sync

SpecReconnectActive == Init /\ [][NextReconnectActive]_vars

\* the values reset_reconnection_state() leaves
C27_IsReset ==
    /\ reconnection_state.attempts = 0
    /\ reconnection_state.consecutive_failures = 0
    /\ ~reconnection_state.is_reconnecting

(* C27: whenever the stream state enters ACTIVE the reconnection state has *)
(* been reset: attempts = 0, consecutive_failures = 0 and is_reconnecting  *)
(* false hold once the transition into ACTIVE is complete.                 *)
C27_ActiveResetsReconnection ==
    [][(state # ACTIVE /\ state' = ACTIVE) => C27_IsReset']_vars

----------------------------------------------------------------------------
(* Further properties of ErrorRecoveryManager, checked under SpecRecovery. *)

\* what an attempt_recovery call whose remediation ran leaves in the ledger
C28_Step ==
    /\ \A e \in ErrorTypes : recovery_attempts'[e] <= 3
    /\ \A e \in ErrorTypes :
          (/\ attempt_recovery(e)
           /\ result'.error_type = e
           /\ result'.ran # None) =>
              IF result'.ok
              THEN recovery_attempts'[e] = 0
              ELSE recovery_attempts'[e] = recovery_attempts[e] + 1

(* C28: a category's recovery attempt count is reset to zero when its      *)
(* remediation succeeds and is never reset by a failed remediation; it is  *)
(* at most 3 in every reachable state.                                     *)
C28_SuccessResetsAttempts == [][C28_Step]_vars

\* the part of C28 that does not depend on a reset: the count is at most 3
\* and a failed remediation leaves the attempt counted
C28_FailureKeepsCount ==
    [][/\ \A e \in ErrorTypes : recovery_attempts'[e] <= 3
       /\ \A e \in ErrorTypes :
             (attempt_recovery(e) /\ result'.error_type = e
              /\ result'.ran # None /\ ~result'.ok) =>
                 recovery_attempts'[e] = recovery_attempts[e] + 1]_vars

\* no step lowers a count
C28_NeverLowered ==
    [][\A e \in ErrorTypes : recovery_attempts'[e] >= recovery_attempts[e]]_vars

----------------------------------------------------------------------------
(* Further properties of FrameWatchdog, checked under SpecWatchdog.        *)

\* one round of watchdog_loop with the watchdog active: with no frame for
\* more than 10 s it has made one call of attempt_recovery("network_timeout")
\* (which counts an attempt exactly when it ran the remediation, and touches
\* no other category) and restarted the wait at the current time; with a
\* frame in the last 10 s it has called nothing
C29_Step ==
    (watchdog_loop /\ frame_watchdog.watchdog_active) =>
        IF now - frame_watchdog.last_frame_time > 10
        THEN /\ result'.op = "watchdog_loop"
             /\ result'.ran \in {None, "handle_network_timeout_error"}
             /\ recovery_attempts' =
                   [recovery_attempts EXCEPT
                       !["network_timeout"] =
                           IF result'.ran = None THEN @ ELSE @ + 1]
             /\ frame_watchdog'.last_frame_time = now
             /\ frame_watchdog'.watchdog_active
        ELSE UNCHANGED <<frame_watchdog, recoveryVars, result>>

(* C29: while the watchdog runs, a tick with now - last_frame_time > 10     *)
(* invokes attempt_recovery("network_timeout") exactly once and resets     *)
(* last_frame_time to now; a tick with a frame within the last 10 s        *)
(* invokes nothing.                                                        *)
C29_StaleTickRecoversOnce == [][C29_Step]_vars

\* a round found the frames overdue, ran the remediation and restarted the
\* wait
C29_Witness ==
    /\ result.op = "watchdog_loop"
    /\ result.ran = "handle_network_timeout_error"
    /\ frame_watchdog.watchdog_active
    /\ frame_watchdog.last_frame_time = now
    /\ now > watchdog_timeout
    /\ recovery_attempts["network_timeout"] = 1

----------------------------------------------------------------------------
(* The operations that free the capture device with fuser -k, next to the  *)
(* encoders that hold it and the state the manager reports.                *)

\* what the relay's WebRTC endpoint on localhost:8889 answers to
\* validate_system_state(): 404, another status, or nothing
WebrtcAnswers == {"404", "other", "unreachable"}

\* validate_system_state() on the manager sm with the processes procs
\* holding the device: a busy device is cleared with fuser -k before the
\* state is looked at; with the state ACTIVE, a process id recorded and the
\* endpoint answering 404 it asks for STOPPED and returns False; otherwise
\* it asks for STOPPED from any state but STOPPED and ERROR, resets the
\* retry count and returns True.  set_state refuses STOPPED from ACTIVE and
\* from STARTING.
validate_system_state_on(sm, procs, answer) ==
    LET procs1 == IF procs # {} THEN fuser_k(procs) ELSE procs
        asked == set_state_on(sm, STOPPED, NoPid, None)
    IN  IF sm.state = ACTIVE /\ sm.state_info.process_id # NoPid /\ answer = "404"
        THEN [sm |-> [asked EXCEPT !.ret = FALSE], procs |-> procs1]
        ELSE LET sm1 == IF sm.state \notin {STOPPED, ERROR} THEN asked ELSE sm
             IN  [sm |-> [sm1 EXCEPT !.state_info.retry_count = 0, !.ret = TRUE],
                  procs |-> procs1]

\* POST /api/system/cleanup and auto_recovery_on_startup():
\* cleanup_zombie_processes() (which signals other python processes only)
\* and validate_system_state()
validate_system_state ==
    \E answer \in WebrtcAnswers :
        LET e == validate_system_state_on(CurrentManager, processes, answer)
        IN  /\ (state # ACTIVE \/ state_info.process_id = NoPid) => answer = "other"
            /\ StoreManager(e.sm)
            /\ processes' = e.procs
            /\ result' = Returned("validate_system_state", e.sm.ret)
            /\ UNCHANGED <<restVars, streaming_active, streaming_process,
                           stream_operation_lock, refresh_pc, refresh_child,
                           status_pc, status_pgrep>>

\* POST /api/health/recovery with error_type camera_busy
camera_busy_recovery == attempt_recovery("camera_busy")

NextDevice ==
    \/ camera_busy_recovery
    \/ validate_system_state
    \/ external_ffmpeg_start
    \/ process_exit
    \/ get_status_probe
    \/ get_status_sync
    \/ TickRecovery

SpecDevice == Init /\ [][NextDevice]_vars

\* a step of one of the two operations that killed the processes holding
\* the capture device
C30_ForceFreed ==
    /\ camera_busy_recovery \/ validate_system_state
    /\ processes # {}
    /\ processes' = {}

(* C30: the capture device is force-freed (its owning processes signalled) *)
(* only while the stream state is STARTING; neither the camera_busy        *)
(* remediation reachable through the recovery endpoint nor the system      *)
(* validation force-frees it while the state is ACTIVE.                    *)
C30_ForceFreeOnlyWhileStarting ==
    [][C30_ForceFreed => state = STARTING]_vars

\* the second half alone: never while ACTIVE
C30_NeverWhileActive ==
    [][C30_ForceFreed => state # ACTIVE]_vars

\* the camera_busy remediation alone, while ACTIVE
C30_RecoveryNeverWhileActive ==
    [][(camera_busy_recovery /\ processes # {} /\ processes' = {}) =>
          state # ACTIVE]_vars

\* the system validation alone, while ACTIVE
C30_ValidationNeverWhileActive ==
    [][(validate_system_state /\ processes # {} /\ processes' = {}) =>
          state # ACTIVE]_vars

----------------------------------------------------------------------------
(* Further properties of the CPU reduction, checked under SpecQuality.     *)

\* the resolutions up to the mid tier
C31_UpToMid == {"320p", "480p"}

(* C31: whenever the CPU usage is above 70% (and not above 85%, the CPU    *)
(* not throttling) at a round of the CPU monitoring thread while the       *)
(* stream is ACTIVE, the resolution is at most "480p" and the framerate at *)
(* most 15 after that round.                                               *)
C31_ModeratePressureCapsQuality ==
    (/\ result.op = "cpu_monitoring_thread"
     /\ result.was_state = ACTIVE
     /\ result.cpu_usage > 70
     /\ result.cpu_usage <= 85
     /\ ~result.is_throttling) =>
        /\ current_resolution \in C31_UpToMid
        /\ current_framerate <= 15

\* the same for a direct call of auto_reduce_quality() (POST
\* /api/cpu/optimize), which does not depend on the thread's test
C31_DirectCallCapsQuality ==
    [][(/\ trigger_cpu_optimization
        /\ cpu_usage > 70 /\ cpu_usage <= 85 /\ ~is_throttling) =>
           /\ current_resolution' \in C31_UpToMid
           /\ current_framerate' <= 15]_vars

\* no round of the thread has ever called auto_reduce_quality()
C31_ThreadNeverCalls == result.op = "cpu_monitoring_thread" => ~result.called

----------------------------------------------------------------------------
(* The target adapt_stream_quality() derives, as a function of the manager *)
(* and the conditions stored in it: applied to every framerate from 5 to   *)
(* 25, every resolution and both bitrates, under conditions on each side   *)
(* of every threshold the function tests.                                  *)

TargetFps == 5..25
TargetLoss == {0, 1, 3, 7, 12, 20}
TargetRtt == {50, 150, 300, 600, 900, 1000}

InitTarget ==
    /\ InitManagerFields
    /\ result = Returned("init", TRUE)
    /\ InitStreaming
    /\ now = 0
    /\ InitReconnection
    /\ InitRecovery
    /\ InitQuality({"480p"}, {10})
    /\ InitCpu
    /\ InitCommand
    /\ InitAudioQuality
    /\ InitStore
    /\ InitWatchdog
    /\ InitRecording
    /\ bandwidth_manager \in
          [current_resolution : Resolutions, current_fps : TargetFps,
           current_bitrate : {16, 32},
           network_conditions : {[packet_loss_rate |-> 0, rtt_ms |-> 0,
                                  bandwidth_kbps |-> 0]},
           adaptation_history : {<<>>},
           last_adaptation_time : {Epoch}]

\* adapt_stream_quality() from "Determine if adaptation is needed" up to
\* "Apply adaptations if needed", on the conditions just stored
derive_adaptation_target ==
    \E packet_loss \in TargetLoss, rtt \in TargetRtt :
        LET bm0 == [bandwidth_manager EXCEPT
                       !.network_conditions = [packet_loss_rate |-> packet_loss,
                                               rtt_ms |-> rtt,
                                               bandwidth_kbps |-> 0]]
            target == adaptation_target(bm0)
        IN  /\ bandwidth_manager' = bm0
            /\ result' = [op |-> "adaptation_target",
                          ok |-> adaptation_needed(bm0, target),
                          target |-> target,
                          was |-> [resolution |-> bm0.current_resolution,
                                   fps |-> bm0.current_fps,
                                   bitrate |-> bm0.current_bitrate]]
            /\ UNCHANGED <<audio_quality_monitor, last_bitrate, storeVars, watchdogVars,
                           recordingVars, smVars, streamVars,
                           now, reconnVars, recoveryVars, qualityVars, cpuVars, commandVars>>

NextTarget == derive_adaptation_target

SpecTarget == InitTarget /\ [][NextTarget]_vars

(* C32: the framerate target of the network-driven adaptation stays within *)
(* [5, 25] and differs from the current framerate by at most 2, and the    *)
(* resolution is raised only from the lowest tier ("320p") to the mid tier *)
(* ("480p"), never to the high tier.                                       *)
C32_TargetStaysInRange ==
    result.op = "adaptation_target" =>
        /\ result.target.fps >= 5
        /\ result.target.fps <= 25
        /\ result.target.fps - result.was.fps <= 2
        /\ result.was.fps - result.target.fps <= 2
        /\ result.target.resolution # result.was.resolution =>
              \/ result.target.resolution = "320p"
              \/ result.was.resolution = "320p" /\ result.target.resolution = "480p"

\* from 24 fps at "320p" under good conditions the target is 25 fps (the
\* ceiling cuts the step to 1) at "480p"
C32_Witness ==
    /\ result.op = "adaptation_target"
    /\ result.was.fps = 24 /\ result.target.fps = 25
    /\ result.was.resolution = "320p" /\ result.target.resolution = "480p"
    /\ bandwidth_manager.network_conditions.rtt_ms < 100

\* from 6 fps under high latency the floor cuts the step to 1
C32_Floor ==
    /\ result.op = "adaptation_target"
    /\ result.was.fps = 6 /\ result.target.fps = 5

----------------------------------------------------------------------------
(* C33: a quality-change restart whose stop step fails is aborted, with    *)
(* the shared resolution and framerate, the controller's recorded target   *)
(* and the adaptation history as before.  The stop step of                 *)
(* MediaMTXCameraManager.set_resolution and set_framerate is               *)
(* stop_streaming(), which answers stop_streaming_returns: the state       *)
(* below, in which a stop step has failed, is the case the claim is about. *)
C33_StopStepFailed ==
    \/ result.op = "stop_streaming" /\ ~result.ok
    \/ /\ result.op = "set_camera_resolution"
       /\ ~result.ok
       /\ streaming_active
       /\ current_resolution \in Resolutions
       /\ persisted.last_resolution # current_resolution

\* no behaviour reaches it
C33_StopStepNeverFails == ~C33_StopStepFailed

----------------------------------------------------------------------------
(* The three background loops of mediamtx_main.py that watch the quality: *)
(* bandwidth_management_thread, cpu_monitoring_thread and                  *)
(* audio_quality_monitor_thread.  Each does "from modules.mediamtx_camera  *)
(* import ..., streaming_active" once and tests that name every round.     *)

quality_check_interval == 5     \* audio_quality_monitor['quality_check_interval']
AudioHistoryKeep == 10          \* "Last 10 packet loss measurements"

\* calculate_packet_loss(): 0 without data, else the 1% it estimates for
\* every session
AudioLoss == {0, 1}

RECURSIVE SumSeq(_)
SumSeq(s) == IF s = <<>> THEN 0 ELSE Head(s) + SumSeq(Tail(s))

\* adjust_audio_quality() at time t with packet loss `loss`: the monitor and
\* the bandwidth manager after the call and the bitrate it returns
adjust_audio_quality_on(aq, bm, loss, t) ==
    IF t - aq.last_adjustment_time < quality_check_interval
    THEN [aq |-> aq, bm |-> bm, ret |-> bm.current_bitrate]
    ELSE IF bm.current_bitrate # aq.current_bitrate
    THEN [aq |-> [aq EXCEPT !.current_bitrate = bm.current_bitrate,
                            !.last_adjustment_time = t],
          bm |-> bm, ret |-> bm.current_bitrate]
    ELSE
    LET h0 == Append(aq.packet_loss_history, loss)
        h == IF Len(h0) > AudioHistoryKeep THEN Tail(h0) ELSE h0
        current_bitrate == aq.current_bitrate
        \* avg_packet_loss > 5.0 and < 2.0, on the sum
        new_bitrate == IF SumSeq(h) > 5 * Len(h)
                       THEN (IF current_bitrate > 16 THEN 16 ELSE current_bitrate)
                       ELSE IF SumSeq(h) < 2 * Len(h)
                       THEN (IF current_bitrate < 32 THEN 32 ELSE current_bitrate)
                       ELSE current_bitrate
    IN  IF new_bitrate # current_bitrate
        THEN [aq |-> [aq EXCEPT !.packet_loss_history = h,
                                !.current_bitrate = new_bitrate,
                                !.last_adjustment_time = t],
              bm |-> [bm EXCEPT !.current_bitrate = new_bitrate],
              ret |-> new_bitrate]
        ELSE [aq |-> [aq EXCEPT !.packet_loss_history = h], bm |-> bm,
              ret |-> current_bitrate]

\* one round of bandwidth_management_thread(): adapt_stream_quality() when
\* its streaming_active holds
bandwidth_management_thread ==
    \E relay \in RelayAnswers :
        LET called == thread_streaming_active
            e == IF called
                 THEN adapt_stream_quality_on(bandwidth_manager, Globals, relay, now)
                 ELSE [bm |-> bandwidth_manager, g |-> Globals, ret |-> FALSE,
                       measured |-> FALSE]
        IN  /\ (called /\ e.measured) \/ relay = CHOOSE r \in RelayAnswers : ~r.reachable
            /\ bandwidth_manager' = e.bm
            /\ current_resolution' = e.g.current_resolution
            /\ current_framerate' = e.g.current_framerate
            /\ persisted' = e.g.persisted
            /\ result' = [op |-> "bandwidth_management_thread", ok |-> e.ret,
                          called |-> called, restarted |-> FALSE, was_state |-> state]
            /\ UNCHANGED <<audio_quality_monitor, last_bitrate, watchdogVars,
                           recordingVars, smVars, streamVars, now, reconnVars,
                           recoveryVars, cpuVars, commandVars>>

\* one round of audio_quality_monitor_thread(): adjust_audio_quality() when
\* its streaming_active holds; a bitrate other than last_bitrate is followed
\* by stop_streaming(), start_streaming() and kept as last_bitrate
audio_quality_monitor_thread ==
    \E loss \in AudioLoss :
        LET called == thread_streaming_active
            e == IF called
                 THEN adjust_audio_quality_on(audio_quality_monitor, bandwidth_manager,
                                              loss, now)
                 ELSE [aq |-> audio_quality_monitor, bm |-> bandwidth_manager,
                       ret |-> last_bitrate]
            changed == called /\ e.ret # last_bitrate
        IN  /\ called \/ loss = 0
            /\ audio_quality_monitor' = e.aq
            /\ bandwidth_manager' = e.bm
            /\ last_bitrate' = (IF changed THEN e.ret ELSE last_bitrate)
            /\ result' = [op |-> "audio_quality_monitor_thread", ok |-> TRUE,
                          called |-> called,
                          restarted |-> changed /\ stop_streaming_returns.ok
                                                /\ start_streaming_returns.ok,
                          was_state |-> state]
            /\ UNCHANGED <<storeVars, watchdogVars, recordingVars, smVars, streamVars,
                           now, reconnVars, recoveryVars, qualityVars, cpuVars, commandVars>>

NextTicks ==
    \/ bandwidth_management_thread
    \/ cpu_monitoring_thread
    \/ audio_quality_monitor_thread
    \/ cpu_changes
    \/ TickAdapt
    \/ external_ffmpeg_start
    \/ process_exit
    \/ get_status_probe
    \/ get_status_sync

SpecTicks == Init /\ [][NextTicks]_vars

C34_Tick ==
    \/ bandwidth_management_thread
    \/ cpu_monitoring_thread
    \/ audio_quality_monitor_thread

(* C34: a round of the bandwidth, CPU or audio-quality loop run while the  *)
(* stream state is not "active" samples nothing, changes neither the       *)
(* shared resolution and framerate nor the bandwidth manager nor the audio *)
(* monitor, and restarts nothing.                                          *)
C34_TicksActOnlyWhileActive ==
    [][(C34_Tick /\ state # ACTIVE) =>
          /\ ~result'.called
          /\ ~result'.restarted
          /\ UNCHANGED <<qualityVars, adaptVars, storeVars, streamVars>>]_vars

\* a round of the CPU loop has run in state "starting", with encoders
\* running and the CPU usage above 80
C34_Witness ==
    /\ result.op = "cpu_monitoring_thread"
    /\ result.was_state = STARTING
    /\ state = STARTING
    /\ processes # {}
    /\ cpu_usage > 80

\* a round of the bandwidth loop and one of the audio loop have run in
\* state "stopped"
C34_StoppedBandwidthRound ==
    result.op = "bandwidth_management_thread" /\ result.was_state = STOPPED

C34_StoppedAudioRound ==
    result.op = "audio_quality_monitor_thread" /\ result.was_state = STOPPED

----------------------------------------------------------------------------
(* get_ffmpeg_command(): the encoder command built from the module's       *)
(* current_resolution and current_framerate.  The function takes no lock    *)
(* and reads current_resolution three times (width, height, the bitrate     *)
(* map) and current_framerate once, with get_camera_device() and            *)
(* get_cpu_usage() in between; each read is a step other threads can        *)
(* precede.                                                                 *)

\* camera_settings of mediamtx_camera.py
camera_settings ==
    [r \in Resolutions |->
        CASE r = "320p" -> [width |-> 640, height |-> 360]
          [] r = "480p" -> [width |-> 854, height |-> 480]
          [] r = "720p" -> [width |-> 1280, height |-> 720]]

\* bitrate_map of get_ffmpeg_command(), in kbit/s
bitrate_map ==
    [r \in Resolutions |->
        CASE r = "320p" -> 120
          [] r = "480p" -> 180
          [] r = "720p" -> 300]

\* width = camera_settings[current_resolution]["width"]
get_ffmpeg_command_width ==
    /\ ffmpeg_command.pc = "idle"
    /\ ffmpeg_command' = [ffmpeg_command EXCEPT
                             !.pc = "height",
                             !.width = camera_settings[current_resolution].width]
    /\ UNCHANGED <<extVars, smVars, result, streamVars, now, reconnVars, recoveryVars,
                   qualityVars, cpuVars>>

\* height = camera_settings[current_resolution]["height"]
get_ffmpeg_command_height ==
    /\ ffmpeg_command.pc = "height"
    /\ ffmpeg_command' = [ffmpeg_command EXCEPT
                             !.pc = "bitrate",
                             !.height = camera_settings[current_resolution].height]
    /\ UNCHANGED <<extVars, smVars, result, streamVars, now, reconnVars, recoveryVars,
                   qualityVars, cpuVars>>

\* get_camera_device(), then video_bitrate = bitrate_map.get(current_resolution, ...)
get_ffmpeg_command_bitrate ==
    /\ ffmpeg_command.pc = "bitrate"
    /\ ffmpeg_command' = [ffmpeg_command EXCEPT
                             !.pc = "cmd",
                             !.video_bitrate = bitrate_map[current_resolution]]
    /\ UNCHANGED <<extVars, smVars, result, streamVars, now, reconnVars, recoveryVars,
                   qualityVars, cpuVars>>

\* get_cpu_usage() with the preset and crf it selects, then cmd = [...] with
\* fps={current_framerate}, and return cmd
get_ffmpeg_command_cmd ==
    /\ ffmpeg_command.pc = "cmd"
    /\ ffmpeg_command' = [ffmpeg_command EXCEPT !.pc = "idle"]
    /\ result' = [op |-> "get_ffmpeg_command", ok |-> TRUE,
                  width |-> ffmpeg_command.width,
                  height |-> ffmpeg_command.height,
                  video_bitrate |-> ffmpeg_command.video_bitrate,
                  fps |-> current_framerate,
                  crf |-> IF cpu_usage > 80 THEN 32 ELSE IF cpu_usage > 60 THEN 30 ELSE 28]
    /\ UNCHANGED <<extVars, smVars, streamVars, now, reconnVars, recoveryVars,
                   qualityVars, cpuVars>>

NextCommand ==
    \/ get_ffmpeg_command_width
    \/ get_ffmpeg_command_height
    \/ get_ffmpeg_command_bitrate
    \/ get_ffmpeg_command_cmd
    \/ mediamtx_config_resolution
    \/ set_framerate_api
    \/ cpu_changes

SpecCommand == Init /\ [][NextCommand]_vars

(* C35: the command get_ffmpeg_command() returns has its frame size and    *)
(* its video bitrate from one resolution: some resolution r gives the      *)
(* width, the height and the bitrate of the command (a consequence of the  *)
(* command being built from one quality target), whatever SetResolution or *)
(* SetFramerate calls ran meanwhile.                                       *)
C35_CommandFromOneTarget ==
    result.op = "get_ffmpeg_command" =>
        \E r \in Resolutions :
            /\ result.width = camera_settings[r].width
            /\ result.height = camera_settings[r].height
            /\ result.video_bitrate = bitrate_map[r]

\* a command with the frame size of one resolution and the bitrate of another
C35_MixedCommand ==
    /\ result.op = "get_ffmpeg_command"
    /\ result.width = camera_settings["480p"].width
    /\ result.height = camera_settings["480p"].height
    /\ result.video_bitrate = bitrate_map["720p"]

\* without a concurrent change the command is consistent
C35_QuietCallIsConsistent ==
    [][(get_ffmpeg_command_cmd
        /\ ffmpeg_command.width = camera_settings[current_resolution].width
        /\ ffmpeg_command.height = camera_settings[current_resolution].height
        /\ ffmpeg_command.video_bitrate = bitrate_map[current_resolution]) =>
           \E r \in Resolutions :
              /\ result'.width = camera_settings[r].width
              /\ result'.height = camera_settings[r].height
              /\ result'.video_bitrate = bitrate_map[r]]_vars

----------------------------------------------------------------------------
(* RecordingManager.auto_resume_recording(), reached through               *)
(* POST /api/recording/resume, next to the forced restart of the live      *)
(* stream by refresh_stream_api, whose "pkill -9 ffmpeg" ends the          *)
(* recording processes too.                                                *)

\* auto_resume_recording(): nothing without an active session; else
\* stop_recording(), time.sleep(2), start_recording(), whatever the stop
\* returned
auto_resume_recording ==
    \E stop_outcome \in StopOutcomes, start_outcome \in StartOutcomes :
        LET s == RecordingManager_stop_recording_on(recording_manager, recording_procs,
                                                    stop_outcome)
            t == RecordingManager_start_recording_on(s.rm, s.procs, start_outcome)
        IN  IF ~recording_manager.recording_active
            THEN /\ stop_outcome = "quit"
                 /\ start_outcome = "raises"
                 /\ result' = [op |-> "auto_resume_recording", ok |-> FALSE,
                               was_active |-> FALSE, signals |-> {}, spawned |-> FALSE,
                               stopped |-> FALSE, start_outcome |-> "none"]
                 /\ UNCHANGED <<smVars, streamVars, now, reconnVars, recoveryVars,
                                qualityVars, cpuVars, commandVars, adaptVars, storeVars,
                                watchdogVars, recordingVars>>
            ELSE /\ s.signals = {} => stop_outcome = "quit"
                 /\ s.rm.recording_active => start_outcome = "raises"
                 /\ t.procs.started <= MaxRecordings
                 /\ recording_manager' = t.rm
                 /\ recording_procs' = t.procs
                 /\ result' = [op |-> "auto_resume_recording", ok |-> t.ok,
                               was_active |-> TRUE, signals |-> s.signals,
                               spawned |-> t.spawned, stopped |-> s.ok,
                               start_outcome |-> IF s.rm.recording_active
                                                 THEN "refused" ELSE start_outcome]
                 /\ UNCHANGED <<smVars, streamVars, now, reconnVars, recoveryVars,
                                qualityVars, cpuVars, commandVars, adaptVars, storeVars,
                                watchdogVars, reliable_recording, rec>>

NextResume ==
    \/ RecordingManager_start_recording
    \/ RecordingManager_stop_recording
    \/ auto_resume_recording
    \/ recording_process_exits
    \/ \E r \in Requests : refresh_stream_api_begin(r)
    \/ \E r \in Requests : refresh_stream_api_spawn(r)
    \/ \E r \in Requests : refresh_stream_api_spawn_raises(r)
    \/ \E r \in Requests : refresh_stream_api_end(r)

SpecResume == Init /\ [][NextResume]_vars

\* the one session is active on a running process that is not `old`
C36_ResumedOn(old) ==
    /\ recording_manager'.recording_active
    /\ recording_manager'.recording_process # old
    /\ recording_manager'.recording_process \in recording_procs'.alive
    /\ recording_procs'.alive = {recording_manager'.recording_process}

C36_ResumeStep ==
    auto_resume_recording =>
        IF ~recording_manager.recording_active
        THEN UNCHANGED recordingVars
        ELSE result'.start_outcome \in {"running", "refused"} =>
                C36_ResumedOn(recording_manager.recording_process)

(* C36: auto_resume_recording() does nothing when no recording session is  *)
(* active; called while one is active (as after a forced restart of the    *)
(* live stream) it stops the recording and starts it again, ending with    *)
(* exactly one active session on a new, running recording process,         *)
(* provided the new ffmpeg starts.                                         *)
C36_AutoResumeRestartsSession == [][C36_ResumeStep]_vars

\* the first half alone
C36_IdleResumeIsNoOp ==
    [][(auto_resume_recording /\ ~recording_manager.recording_active) =>
          UNCHANGED recordingVars]_vars

\* a forced restart that completes while a session is active leaves the
\* session on a running recording process
C36_RestartKeepsSession ==
    [][\A r \in Requests :
          (refresh_stream_api_end(r) /\ recording_manager.recording_active) =>
              recording_manager'.recording_process \in recording_procs'.alive]_vars

\* a resume of a session whose process is running does restart it
C36_LiveSessionResumed ==
    /\ result.op = "auto_resume_recording"
    /\ result.was_active /\ result.stopped /\ result.ok
    /\ recording_manager.recording_active
    /\ recording_manager.recording_process = 2
    /\ recording_procs.alive = {2}

\* after a forced restart the resume was refused: the session is still on
\* the process the restart killed
C36_ResumeRefused ==
    /\ result.op = "auto_resume_recording"
    /\ result.was_active /\ ~result.stopped /\ ~result.ok
    /\ result.start_outcome = "refused"
    /\ recording_manager.recording_active
    /\ recording_manager.recording_process \notin recording_procs.alive

----------------------------------------------------------------------------
(* C37: at most one watchdog_loop thread of the FrameWatchdog is alive at  *)
(* any time, however start_watchdog and stop_watchdog are interleaved with *)
(* the rounds of the loop.                                                 *)
C37_AtMostOneWatchdogLoop == frame_watchdog.loops <= 1

\* stop_watchdog cleared the flag and start_watchdog set it again before the
\* old thread looked at it: both threads find the flag set and go on
C37_TwoLoops ==
    /\ frame_watchdog.loops = 2
    /\ frame_watchdog.watchdog_active
    /\ result.op = "start_watchdog"

\* without a start between stop_watchdog and the old thread's next round
\* that thread ends
C37_StoppedLoopEnds ==
    [][(watchdog_loop /\ ~frame_watchdog.watchdog_active) =>
          frame_watchdog'.loops = frame_watchdog.loops - 1]_vars

----------------------------------------------------------------------------
\* the cleanup of a _monitor_recording thread runs while the manager's
\* current session is running on a live process: the session stays as it is
C38_MonitorStep ==
    (/\ monitor_recording_finally
     /\ rec.running
     /\ rec.process # NoPid
     /\ poll_is_None(recording_procs, rec.process)) =>
        /\ rec'.running
        /\ rec'.process = rec.process
        /\ rec'.audio_device_busy

(* C38: in MediaMTXRecordingManager the monitor thread of an ended session *)
(* never clears the state of a later session: while the process of the     *)
(* current session is alive, a monitor's cleanup leaves running true, the  *)
(* process handle set and the audio device marked busy.                    *)
C38_OldMonitorSparesNewSession == [][C38_MonitorStep]_vars

\* the second session's process 2 is running, and the manager was cleared
\* by the monitor of the first
C38_NewSessionCleared ==
    /\ ~rec.running
    /\ rec.process = NoPid
    /\ ~rec.audio_device_busy
    /\ recording_procs.alive = {2}
    /\ recording_procs.started = 2
    /\ result.op = "MediaMTXRecordingManager.start" /\ result.ok
    /\ \E m \in rec.monitors : m.session = 2

----------------------------------------------------------------------------
\* the categories attempt_recovery has no remediation for
C39_Unremediated == {e \in ErrorTypes : remediation(e) = None}

C39_Step ==
    \A e \in C39_Unremediated :
        attempt_recovery(e) =>
            /\ ~result'.ok
            /\ result'.ran = None
            /\ recovery_attempts'[e] = recovery_attempts[e]
            /\ last_recovery_time'[e] = last_recovery_time[e]

(* C39: attempt_recovery with a category that has no remediation returns   *)
(* False, runs no remediation and leaves the category's attempt count and  *)
(* last attempt time as they were.                                         *)
C39_UnknownCategoryIsNotCounted == [][C39_Step]_vars

\* the part about the return value and the remediation alone
C39_UnknownCategoryFails ==
    [][\A e \in C39_Unremediated :
          attempt_recovery(e) => (~result'.ok /\ result'.ran = None)]_vars

\* a category without remediation has used up its attempts
C39_UnknownExhausted ==
    /\ result.op = "attempt_recovery"
    /\ result.error_type \in C39_Unremediated
    /\ ~result.ok /\ result.ran = None
    /\ recovery_attempts[result.error_type] = max_recovery_attempts

----------------------------------------------------------------------------
(* The retries of the reconnection controller under fair scheduling: the   *)
(* delayed_reconnection thread runs when its sleep is over and time        *)
(* passes.  Failures are handled early enough for the retry they schedule  *)
(* to fire within the clock explored.                                      *)

handle_stream_failure_in_time ==
    /\ now + get_reconnection_delay(start_reconnection_attempt(reconnection_state).rs) + 1
          <= MaxReconnectTime
    /\ handle_stream_failure

\* a second passes; the last second of the clock explored is left for the
\* time.sleep(1) of a thread that has not woken yet
TickRetry ==
    /\ reconnect_thread.pc = "sleeping" => now + 1 < MaxReconnectTime
    /\ TickSecond

NextRetry ==
    \/ handle_stream_failure_in_time
    \/ delayed_reconnection_stop
    \/ delayed_reconnection_start
    \/ TickRetry

SpecRetry == Init /\ [][NextRetry]_vars

FairSpecRetry ==
    /\ SpecRetry
    /\ WF_vars(delayed_reconnection_stop)
    /\ WF_vars(delayed_reconnection_start)
    /\ WF_vars(TickRetry)

\* a failure handled while no retry is pending and attempts are left
\* schedules a retry
C40_FailureSchedulesRetry ==
    [][(/\ handle_stream_failure
        /\ ~reconnection_state.is_reconnecting
        /\ reconnection_state.attempts < max_attempts) =>
           /\ reconnection_state'.is_reconnecting
           /\ reconnect_thread'.pc = "sleeping"
           /\ result'.ok]_vars

(* C40: every scheduled reconnection retry eventually clears               *)
(* is_reconnecting, so the flag never stays true forever; and a failure    *)
(* handled after that, with attempts below max_attempts, schedules a new   *)
(* retry.                                                                  *)
C40_RetryClearsFlag ==
    /\ reconnection_state.is_reconnecting ~> ~reconnection_state.is_reconnecting
    /\ C40_FailureSchedulesRetry

\* a retry has fired and cleared the flag, and the failure after it has
\* scheduled the next one
C40_Witness ==
    /\ result.op = "handle_stream_failure" /\ result.ok
    /\ reconnection_state.is_reconnecting
    /\ reconnect_thread.pc = "sleeping"
    /\ now >= 4
    /\ reconnection_state.last_failure_time >= 3

====
